---- MODULE Spec2Model ----
(***************************************************************************)
(* A model of scripts/build_dashboard.py: the status normaliser, the       *)
(* counters, the violation detector, the sorter, the per-repository        *)
(* summary and the renderers, and main(), which reads the snapshot, runs   *)
(* them in order and writes the document.                                  *)
(*                                                                         *)
(* A Python str is a sequence of characters; a character is a one-letter   *)
(* TLA+ string, or "U+XXXX" for a character outside ASCII.  A value read   *)
(* from the snapshot is Str(s), None, or Absent (the key is missing).      *)
(***************************************************************************)
EXTENDS Integers, Sequences, FiniteSets, TLC

VARIABLES pc, items, items_sorted, counts, v, repo_summ,
          snapshot, file, total, gen_ts,
          cards_html, v_html, repo_rows, groups_html, html,
          bpc, argv, dry_run, cmds, parsed, issue_url, result

\* what only a run of main uses: the files data/project_items.json and
\* docs/index.html, and the locals of main that hold a number or HTML
run_vars ==
  <<snapshot, file, total, gen_ts, cards_html, v_html, repo_rows, groups_html,
    html>>

\* what only scripts/bootstrap_workspace_issues.py uses: the position in
\* process_repo, the command line and the mode it selects, the commands run
\* so far with what they returned, the locals owner/repo and issue_url, and
\* the RepoResult returned
boot_vars == <<bpc, argv, dry_run, cmds, parsed, issue_url, result>>

\* what only build_dashboard.py uses
dash_vars == <<pc, items, items_sorted, counts, v, repo_summ, run_vars>>

vars == <<dash_vars, boot_vars>>

NO_RESULT == [path |-> <<>>, repo |-> <<>>, status |-> "none", message |-> <<>>]
NOT_PARSED == [owner |-> <<>>, repo |-> <<>>]

\* process_repo is not running
NoBoot ==
  /\ bpc = "none"
  /\ argv = <<>>
  /\ dry_run = TRUE
  /\ cmds = <<>>
  /\ parsed = NOT_PARSED
  /\ issue_url = <<>>
  /\ result = NO_RESULT

Range(f) == {f[i] : i \in DOMAIN f}

----------------------------------------------------------------------------
(* Characters *)

\* the printable ASCII characters, in code-point order from 32 (space);
\* the grave accent is written U+0060
Printable ==
  <<" ", "!", "\"", "#", "$", "%", "&", "'", "(", ")", "*", "+", ",", "-",
    ".", "/", "0", "1", "2", "3", "4", "5", "6", "7", "8", "9", ":", ";",
    "<", "=", ">", "?", "@", "A", "B", "C", "D", "E", "F", "G", "H", "I",
    "J", "K", "L", "M", "N", "O", "P", "Q", "R", "S", "T", "U", "V", "W",
    "X", "Y", "Z", "[", "\\", "]", "^", "_", "U+0060", "a", "b", "c", "d", "e",
    "f", "g", "h", "i", "j", "k", "l", "m", "n", "o", "p", "q", "r", "s",
    "t", "u", "v", "w", "x", "y", "z", "{", "|", "}", "~">>

\* U+23ED, the "next track" sign RE_NEXT looks for
NEXT_SIGN == "U+23ED"

\* U+D800, a surrogate on its own: json.load takes the escape \ud800 into a
\* str, and the utf-8 codec cannot encode it
SURROGATE == "U+D800"

\* the code point of a character: the order Python compares str by
Ord(c) ==
  CASE c = "\t" -> 9
    [] c = "\n" -> 10
    [] c = "\r" -> 13
    [] c = NEXT_SIGN -> 9197
    [] c = SURROGATE -> 55296
    [] OTHER -> 31 + (CHOOSE i \in DOMAIN Printable : Printable[i] = c)

\* what \s of a str pattern matches, and what str.strip() removes
IsSpace(c) == c \in {" ", "\t", "\n", "\r"}

\* what \w of a str pattern matches
IsWord(c) ==
  LET o == Ord(c)
  IN  \/ o \in 48..57
      \/ o \in 65..90
      \/ o \in 97..122
      \/ o = 95

\* str.lower() of one character, as re.IGNORECASE compares
Lower(c) ==
  LET o == Ord(c)
  IN  IF o \in 65..90 THEN Printable[o + 32 - 31] ELSE c

----------------------------------------------------------------------------
(* Values of the snapshot *)

None == [t |-> "None", s |-> <<>>]
Absent == [t |-> "absent", s |-> <<>>]
Str(s) == [t |-> "str", s |-> s]

\* Python's truth value of None, of a str and of an int
Truthy(x) ==
  \/ x.t = "str" /\ x.s # <<>>
  \/ x.t = "int" /\ x.s # <<"0">>

\* d.get(k): None for a missing key
get(it, k) == IF it[k].t = "absent" THEN None ELSE it[k]

\* d.get(k, default)
get_default(it, k, d) == IF it[k].t = "absent" THEN d ELSE it[k]

\* (it.get("content") or {}).get(k): url, body and crepo are the url, body
\* and repository of the content dict
content_get(it, k) == IF it.content = "dict" THEN get(it, k) ELSE None

\* (it.get("content") or {}).get(k, default)
content_get_default(it, k, d) ==
  IF it.content = "dict" THEN get_default(it, k, d) ELSE d

\* str(x) inside an f-string
format(x) == IF x.t = "None" THEN <<"N", "o", "n", "e">> ELSE x.s

Digits == <<"0", "1", "2", "3", "4", "5", "6", "7", "8", "9">>

\* str(n) of an int n >= 0
RECURSIVE str_int(_)
str_int(n) ==
  IF n < 10 THEN <<Digits[n + 1]>>
  ELSE str_int(n \div 10) \o <<Digits[(n % 10) + 1]>>

\* an int n >= 0, kept as its decimal digits
IntVal(n) == [t |-> "int", s |-> str_int(n)]

\* int(x) of an int, or of a str of decimal digits
RECURSIVE int_digits(_, _)
int_digits(s, acc) ==
  IF s = <<>> THEN acc
  ELSE int_digits(Tail(s),
                  10 * acc + (CHOOSE k \in 0..9 : Digits[k + 1] = Head(s)))

int(x) == int_digits(x.s, 0)

\* a < b for two str
RECURSIVE StrLess(_, _)
StrLess(a, b) ==
  IF b = <<>> THEN FALSE
  ELSE IF a = <<>> THEN TRUE
  ELSE IF Ord(Head(a)) # Ord(Head(b)) THEN Ord(Head(a)) < Ord(Head(b))
  ELSE StrLess(Tail(a), Tail(b))

\* str.strip()
RECURSIVE lstrip(_)
lstrip(s) == IF s # <<>> /\ IsSpace(Head(s)) THEN lstrip(Tail(s)) ELSE s

RECURSIVE rstrip(_)
rstrip(s) ==
  IF s # <<>> /\ IsSpace(s[Len(s)]) THEN rstrip(SubSeq(s, 1, Len(s) - 1))
  ELSE s

strip(s) == rstrip(lstrip(s))

----------------------------------------------------------------------------
(* Status *)

INBOX == <<"I", "n", "b", "o", "x">>
READY == <<"R", "e", "a", "d", "y">>
DOING == <<"D", "o", "i", "n", "g">>
BLOCKED == <<"B", "l", "o", "c", "k", "e", "d">>
DONE == <<"D", "o", "n", "e">>
UNKNOWN == <<"(", "U", "n", "k", "n", "o", "w", "n", ")">>

STATUS_ORDER == <<INBOX, READY, DOING, BLOCKED, DONE>>

StatusKeys == Range(STATUS_ORDER) \cup {UNKNOWN}

\* a bug: the status is trimmed before it is looked up
normalize_status_trim(st) ==
  LET s == IF Truthy(st) THEN strip(st.s) ELSE UNKNOWN
  IN  IF s \in Range(STATUS_ORDER) THEN s ELSE UNKNOWN

normalize_status(st) ==
  LET s == IF Truthy(st) THEN st.s ELSE UNKNOWN
  IN  IF s \in Range(STATUS_ORDER) THEN s ELSE UNKNOWN

\* normalize_status(it.get("status"))
status_of(it) == normalize_status(get(it, "status"))

RECURSIVE build_counts_loop(_, _, _)
build_counts_loop(its, i, acc) ==
  IF i > Len(its) THEN acc
  ELSE build_counts_loop(its, i + 1,
                         [acc EXCEPT ![status_of(its[i])] = @ + 1])

\* a bug: the loop stops one item early
build_counts_short(its) ==
  build_counts_loop(SubSeq(its, 1, Len(its) - 1), 1, [s \in StatusKeys |-> 0])

build_counts(its) == build_counts_loop(its, 1, [s \in StatusKeys |-> 0])

----------------------------------------------------------------------------
(* Violations *)

NEXT_WORD == <<"N", "e", "x", "t", ":">>

\* the first index from i on that holds no whitespace: what \s* consumes
RECURSIVE skip_spaces(_, _)
skip_spaces(s, i) ==
  IF i <= Len(s) /\ IsSpace(s[i]) THEN skip_spaces(s, i + 1) ELSE i

\* the sign, \s*, "Next:" matched from index i
next_match_at(s, i) ==
  /\ i <= Len(s)
  /\ s[i] = NEXT_SIGN
  /\ LET j == skip_spaces(s, i + 1)
     IN  j + 4 <= Len(s) /\ SubSeq(s, j, j + 4) = NEXT_WORD

\* ^ under re.MULTILINE: the start of the string or just after a newline
line_start(s, i) == i = 1 \/ s[i - 1] = "\n"

RECURSIVE next_search_from(_, _)
next_search_from(s, i) ==
  IF i > Len(s) THEN FALSE
  ELSE IF line_start(s, i) /\ next_match_at(s, i) THEN TRUE
  ELSE next_search_from(s, i + 1)

\* a bug: the pattern is compiled without re.MULTILINE
RE_NEXT_search_single(s) == next_match_at(s, 1)

\* RE_NEXT.search(s) is not None
RE_NEXT_search(s) == next_search_from(s, 1)

\* \b at the gap before index i (i in 1..Len(s)+1)
word_boundary(s, i) ==
  LET before == i > 1 /\ IsWord(s[i - 1])
      after == i <= Len(s) /\ IsWord(s[i])
  IN  before # after

p1_match_at(s, i) ==
  /\ i + 1 <= Len(s)
  /\ word_boundary(s, i)
  /\ Lower(s[i]) = "p"
  /\ s[i + 1] = "1"
  /\ word_boundary(s, i + 2)

RECURSIVE p1_search_from(_, _)
p1_search_from(s, i) ==
  IF i > Len(s) THEN FALSE
  ELSE IF p1_match_at(s, i) THEN TRUE
  ELSE p1_search_from(s, i + 1)

\* a bug: the pattern is compiled without the two \b
RE_P1_search_substring(s) ==
  \E i \in 1..(Len(s) - 1) : Lower(s[i]) = "p" /\ s[i + 1] = "1"

\* RE_P1.search(s) is not None
RE_P1_search(s) == p1_search_from(s, 1)

\* x or ""
or_empty(x) == IF Truthy(x) THEN x.s ELSE <<>>

WIP_HEAD ==
  <<"W", "I", "P", "U+8D85", "U+904E", ":", " ", "D", "o", "i", "n", "g",
    "U+304C", " ">>
WIP_TAIL == <<" ", "U+4EF6", "U+FF08", "U+4E0A", "U+9650", "2", "U+FF09">>
BLOCKED_HEAD ==
  <<"B", "l", "o", "c", "k", "e", "d", "U+306B", "U+23ED", " ", "N", "e",
    "x", "t", "U+304C", "U+7121", "U+3044", ":", " ">>
P1_HEAD ==
  <<"P", "1", "U+8D85", "U+904E", "U+FF08", "U+63A8", "U+5B9A", "U+FF09",
    ":", " ", "P", "1", "U+304C", " ">>
P1_TAIL == <<" ", "U+4EF6", "U+FF08", "U+4E0A", "U+9650", "1", "U+FF09">>

\* the message of rule 1
wip_message(n) == WIP_HEAD \o str_int(n) \o WIP_TAIL

\* a bug: the title goes into the message without the "or ''"
blocked_message_raw_title(it) ==
  LET url == or_empty(content_get(it, "url"))
      t == format(get(it, "title"))
  IN  BLOCKED_HEAD \o t \o <<" ", "(">> \o url \o <<")">>

\* the message of rule 2 for one item
blocked_message(it) ==
  LET url == or_empty(content_get(it, "url"))
      t == or_empty(get(it, "title"))
  IN  BLOCKED_HEAD \o t \o <<" ", "(">> \o url \o <<")">>

\* the message of rule 3
p1_message(n) == P1_HEAD \o str_int(n) \o P1_TAIL

\* the loop over blocked
RECURSIVE blocked_loop(_, _, _)
blocked_loop(blocked, i, acc) ==
  IF i > Len(blocked) THEN acc
  ELSE LET it == blocked[i]
           body == or_empty(content_get(it, "body"))
       IN  blocked_loop(blocked, i + 1,
                        IF ~RE_NEXT_search(body)
                        THEN Append(acc, blocked_message(it)) ELSE acc)

\* the text rule 3 searches: title and body joined by a newline
p1_text(it) ==
  format(get_default(it, "title", Str(<<>>))) \o <<"\n">>
    \o format(content_get_default(it, "body", Str(<<>>)))

\* the loop that counts p1
RECURSIVE p1_loop(_, _, _)
p1_loop(its, i, p1) ==
  IF i > Len(its) THEN p1
  ELSE p1_loop(its, i + 1, IF RE_P1_search(p1_text(its[i])) THEN p1 + 1 ELSE p1)

\* a bug: rule 1 fires from 2 Doing items on (>= for >)
violations_wip_ge(its) ==
  LET doing == SelectSeq(its, LAMBDA it : status_of(it) = DOING)
      v1 == IF Len(doing) >= 2 THEN <<wip_message(Len(doing))>> ELSE <<>>
      blocked == SelectSeq(its, LAMBDA it : status_of(it) = BLOCKED)
      v2 == blocked_loop(blocked, 1, v1)
      p1 == p1_loop(its, 1, 0)
  IN  IF p1 > 1 THEN Append(v2, p1_message(p1)) ELSE v2

\* a bug: rule 3 is evaluated and appended before rule 2
violations_swapped(its) ==
  LET doing == SelectSeq(its, LAMBDA it : status_of(it) = DOING)
      v1 == IF Len(doing) > 2 THEN <<wip_message(Len(doing))>> ELSE <<>>
      blocked == SelectSeq(its, LAMBDA it : status_of(it) = BLOCKED)
      p1 == p1_loop(its, 1, 0)
      v2 == IF p1 > 1 THEN Append(v1, p1_message(p1)) ELSE v1
  IN  blocked_loop(blocked, 1, v2)

violations(its) ==
  LET doing == SelectSeq(its, LAMBDA it : status_of(it) = DOING)
      v1 == IF Len(doing) > 2 THEN <<wip_message(Len(doing))>> ELSE <<>>
      blocked == SelectSeq(its, LAMBDA it : status_of(it) = BLOCKED)
      v2 == blocked_loop(blocked, 1, v1)
      p1 == p1_loop(its, 1, 0)
  IN  IF p1 > 1 THEN Append(v2, p1_message(p1)) ELSE v2

----------------------------------------------------------------------------
(* Sorting *)

\* order.get(st, 999)
order_get(st) ==
  IF \E i \in DOMAIN STATUS_ORDER : STATUS_ORDER[i] = st
  THEN (CHOOSE i \in DOMAIN STATUS_ORDER : STATUS_ORDER[i] = st) - 1
  ELSE 999

\* key(it) of sort_items
key(it) == <<order_get(status_of(it)), or_empty(get(it, "title"))>>

\* a < b for two keys, as Python compares tuples
key_less(a, b) == a[1] < b[1] \/ (a[1] = b[1] /\ StrLess(a[2], b[2]))

\* a bug: an item goes before the items that are equal to it
RECURSIVE insert_item_before_equal(_, _)
insert_item_before_equal(s, x) ==
  IF s = <<>> THEN <<x>>
  ELSE IF ~key_less(key(Head(s)), key(x)) THEN <<x>> \o s
  ELSE <<Head(s)>> \o insert_item_before_equal(Tail(s), x)

\* sorted() is stable: an item goes after the items that are not greater
RECURSIVE insert_item(_, _)
insert_item(s, x) ==
  IF s = <<>> THEN <<x>>
  ELSE IF key_less(key(x), key(Head(s))) THEN <<x>> \o s
  ELSE <<Head(s)>> \o insert_item(Tail(s), x)

RECURSIVE sort_items_loop(_, _, _)
sort_items_loop(its, i, acc) ==
  IF i > Len(its) THEN acc
  ELSE sort_items_loop(its, i + 1, insert_item(acc, its[i]))

\* a bug: the key is the title alone
RECURSIVE insert_item_by_title(_, _)
insert_item_by_title(s, x) ==
  IF s = <<>> THEN <<x>>
  ELSE IF StrLess(key(x)[2], key(Head(s))[2]) THEN <<x>> \o s
  ELSE <<Head(s)>> \o insert_item_by_title(Tail(s), x)

RECURSIVE sort_items_by_title_loop(_, _, _)
sort_items_by_title_loop(its, i, acc) ==
  IF i > Len(its) THEN acc
  ELSE sort_items_by_title_loop(its, i + 1, insert_item_by_title(acc, its[i]))

sort_items_by_title(its) == sort_items_by_title_loop(its, 1, <<>>)

\* a bug: the list is reversed before it is sorted
sort_items_reversed_input(its) ==
  sort_items_loop([i \in DOMAIN its |-> its[Len(its) + 1 - i]], 1, <<>>)

sort_items(its) == sort_items_loop(its, 1, <<>>)

----------------------------------------------------------------------------
(* Per-repository summary *)

UNKNOWN_REPO ==
  <<"(", "u", "n", "k", "n", "o", "w", "n", " ", "r", "e", "p", "o", ")">>

\* a bug: the chosen value is not stripped
repo_key_unstripped(it) ==
  LET a == content_get(it, "crepo")
      b == get(it, "repository")
  IN  IF Truthy(a) THEN a.s ELSE IF Truthy(b) THEN b.s ELSE <<>>

repo_key(it) ==
  LET a == content_get(it, "crepo")
      b == get(it, "repository")
  IN  strip(IF Truthy(a) THEN a.s ELSE IF Truthy(b) THEN b.s ELSE <<>>)

\* repo_key(it) or "(unknown repo)"
repo_of(it) == IF repo_key(it) # <<>> THEN repo_key(it) ELSE UNKNOWN_REPO

\* the loop that fills acc, a dict kept in insertion order
RECURSIVE acc_loop(_, _, _)
acc_loop(its, i, acc) ==
  IF i > Len(its) THEN acc
  ELSE LET rk == repo_of(its[i])
           st == status_of(its[i])
           acc1 == IF \E k \in DOMAIN acc : acc[k].repo = rk THEN acc
                   ELSE Append(acc, [repo |-> rk,
                                     counts |-> [s \in StatusKeys |-> 0]])
           k == CHOOSE k \in DOMAIN acc1 : acc1[k].repo = rk
       IN  acc_loop(its, i + 1,
                    [acc1 EXCEPT ![k].counts[st] = @ + 1])

\* sum(m.values())
RECURSIVE sum_values(_, _)
sum_values(m, keys) ==
  IF keys = {} THEN 0
  ELSE LET k == CHOOSE k \in keys : TRUE
       IN  m[k] + sum_values(m, keys \ {k})

\* a bug: Blocked is compared before Unknown
summary_key_blocked_first(x) ==
  <<-x.counts[BLOCKED], -x.counts[UNKNOWN], -x.counts[DOING], -x.total, x.repo>>

\* a bug: the repository name is left out of the key, so ties keep the order
\* in which the repositories were first met
summary_key_without_repo(x) ==
  <<-x.counts[UNKNOWN], -x.counts[BLOCKED], -x.counts[DOING], -x.total, <<>>>>

\* the key of out.sort
summary_key(x) ==
  <<-x.counts[UNKNOWN], -x.counts[BLOCKED], -x.counts[DOING], -x.total, x.repo>>

summary_key_less(a, b) ==
  \/ a[1] < b[1]
  \/ a[1] = b[1] /\ a[2] < b[2]
  \/ a[1] = b[1] /\ a[2] = b[2] /\ a[3] < b[3]
  \/ a[1] = b[1] /\ a[2] = b[2] /\ a[3] = b[3] /\ a[4] < b[4]
  \/ a[1] = b[1] /\ a[2] = b[2] /\ a[3] = b[3] /\ a[4] = b[4]
       /\ StrLess(a[5], b[5])

RECURSIVE insert_summary(_, _)
insert_summary(s, x) ==
  IF s = <<>> THEN <<x>>
  ELSE IF summary_key_less(summary_key(x), summary_key(Head(s)))
       THEN <<x>> \o s
  ELSE <<Head(s)>> \o insert_summary(Tail(s), x)

RECURSIVE sort_summary_loop(_, _, _)
sort_summary_loop(out, i, acc) ==
  IF i > Len(out) THEN acc
  ELSE sort_summary_loop(out, i + 1, insert_summary(acc, out[i]))

\* a bug: an item without a repository is dropped instead of grouped
build_repo_summary_drop(its) ==
  LET acc == acc_loop(SelectSeq(its, LAMBDA it : repo_key(it) # <<>>), 1, <<>>)
      out == [k \in DOMAIN acc |->
                [repo |-> acc[k].repo, counts |-> acc[k].counts,
                 total |-> sum_values(acc[k].counts, DOMAIN acc[k].counts)]]
  IN  sort_summary_loop(out, 1, <<>>)

build_repo_summary(its) ==
  LET acc == acc_loop(its, 1, <<>>)
      out == [k \in DOMAIN acc |->
                [repo |-> acc[k].repo, counts |-> acc[k].counts,
                 total |-> sum_values(acc[k].counts, DOMAIN acc[k].counts)]]
  IN  sort_summary_loop(out, 1, <<>>)

----------------------------------------------------------------------------
(* Rendering.  A piece of HTML is a sequence whose elements are the          *)
(* characters that come from values (each a one-letter string, as in a str)  *)
(* and the literal text of the templates (each stretch one longer string,    *)
(* with "[...]" where the style sheet is left out).                          *)

\* str.replace(c, r) for a single character c
RECURSIVE replace(_, _, _)
replace(s, c, r) ==
  IF s = <<>> THEN <<>>
  ELSE (IF Head(s) = c THEN r ELSE <<Head(s)>>) \o replace(Tail(s), c, r)

\* a bug: "&" is replaced last, so the entities made before are escaped again
esc_amp_last(s) ==
  LET a == replace(s, "<", <<"&", "l", "t", ";">>)
      b == replace(a, ">", <<"&", "g", "t", ";">>)
      c == replace(b, "\"", <<"&", "q", "u", "o", "t", ";">>)
      d == replace(c, "'", <<"&", "#", "3", "9", ";">>)
  IN  replace(d, "&", <<"&", "a", "m", "p", ";">>)

esc(s) ==
  LET a == replace(s, "&", <<"&", "a", "m", "p", ";">>)
      b == replace(a, "<", <<"&", "l", "t", ";">>)
      c == replace(b, ">", <<"&", "g", "t", ";">>)
      d == replace(c, "\"", <<"&", "q", "u", "o", "t", ";">>)
  IN  replace(d, "'", <<"&", "#", "3", "9", ";">>)

\* sep.join(parts)
RECURSIVE join(_, _)
join(parts, sep) ==
  IF parts = <<>> THEN <<>>
  ELSE IF Len(parts) = 1 THEN parts[1]
  ELSE parts[1] \o sep \o join(Tail(parts), sep)

\* str.upper() of one character
Upper(c) ==
  LET o == Ord(c)
  IN  IF o \in 97..122 THEN Printable[o - 32 - 31] ELSE c

\* str.capitalize()
capitalize(s) ==
  IF s = <<>> THEN <<>>
  ELSE <<Upper(s[1])>> \o [i \in 1..(Len(s) - 1) |-> Lower(s[i + 1])]

\* the words of RE_TASK_TYPE
TASK_TYPES ==
  << <<"I", "n", "v", "e", "s", "t", "i", "g", "a", "t", "e">>,
     <<"D", "e", "c", "i", "d", "e">>,
     <<"I", "m", "p", "l", "e", "m", "e", "n", "t">>,
     <<"V", "e", "r", "i", "f", "y">> >>

\* RE_TASK_TYPE.match(t): "[", one of the words in any letter case, "]"
task_type_matches(t, w) ==
  /\ Len(t) >= Len(w) + 2
  /\ t[1] = "["
  /\ \A i \in DOMAIN w : Lower(t[i + 1]) = Lower(w[i])
  /\ t[Len(w) + 2] = "]"

infer_type(title) ==
  LET t == strip(title)
      m == {k \in DOMAIN TASK_TYPES : task_type_matches(t, TASK_TYPES[k])}
  IN  IF m = {} THEN <<"U", "n", "k", "n", "o", "w", "n">>
      ELSE LET w == TASK_TYPES[CHOOSE k \in m : \A j \in m : k <= j]
           IN  capitalize(SubSeq(t, 2, Len(w) + 1))

\* "%02d" % n and "%04d" % n
pad2(n) == IF n < 10 THEN <<"0">> \o str_int(n) ELSE str_int(n)

pad4(n) ==
  IF n < 10 THEN <<"0", "0", "0">> \o str_int(n)
  ELSE IF n < 100 THEN <<"0", "0">> \o str_int(n)
  ELSE IF n < 1000 THEN <<"0">> \o str_int(n)
  ELSE str_int(n)

\* datetime.fromtimestamp(ts, tz=TOKYO).strftime("%Y-%m-%d %H:%M JST"),
\* for ts >= 0: the civil date of the day number, nine hours ahead of UTC
now_jst_str(ts) ==
  LET secs == ts + 9 * 3600
      rem  == secs % 86400
      z    == (secs \div 86400) + 719468
      era  == z \div 146097
      doe  == z % 146097
      yoe  == (doe - (doe \div 1460) + (doe \div 36524) - (doe \div 146096))
                \div 365
      doy  == doe - (365 * yoe + (yoe \div 4) - (yoe \div 100))
      mp   == (5 * doy + 2) \div 153
      d    == doy - ((153 * mp + 2) \div 5) + 1
      m    == IF mp < 10 THEN mp + 3 ELSE mp - 9
      y    == yoe + era * 400 + (IF m <= 2 THEN 1 ELSE 0)
  IN  pad4(y) \o <<"-">> \o pad2(m) \o <<"-">> \o pad2(d) \o <<" ">>
        \o pad2(rem \div 3600) \o <<":">> \o pad2((rem % 3600) \div 60)
        \o <<" ", "J", "S", "T">>

\* the st_class dict of render_rows
st_class(st) ==
  CASE st = INBOX -> "st-inbox"
    [] st = READY -> "st-ready"
    [] st = DOING -> "st-doing"
    [] st = BLOCKED -> "st-blocked"
    [] st = DONE -> "st-done"
    [] OTHER -> "st-unknown"

\* one row of render_rows
render_row(it) ==
  LET url   == or_empty(content_get(it, "url"))
      num   == content_get(it, "number")
      repo  == strip(or_empty(content_get(it, "crepo")))
      ttype == infer_type(or_empty(get(it, "title")))
      st    == status_of(it)
      title == or_empty(get(it, "title"))
      body  == strip(or_empty(content_get(it, "body")))
      details_html ==
        IF body # <<>>
        THEN <<"<details class='details'>", "<summary>U+672CU+6587</summary>",
               "<pre class='body'>">> \o esc(body) \o <<"</pre>", "</details>">>
        ELSE <<>>
  IN  <<"<tr>", "<td class='colStatus'><span class='pill ", st_class(st), "'>">>
        \o esc(st) \o <<"</span></td>">>
        \o <<"<td class='colType'><span class='pill tp'>">>
        \o esc(ttype) \o <<"</span></td>">>
        \o <<"<td class='colNum'>">>
        \o esc(IF num.t # "None" THEN format(num) ELSE <<"-">>) \o <<"</td>">>
        \o <<"<td class='colTitle'>", "<a href='">> \o esc(url)
        \o <<"' target='_blank' rel='noopener noreferrer'>">> \o esc(title)
        \o <<"</a>", "<div class='sub'>">> \o esc(repo) \o <<"</div>">>
        \o details_html \o <<"</td>", "</tr>">>

render_rows(its) == join([i \in DOMAIN its |-> render_row(its[i])], <<"\n">>)

\* the template of render_group around a group that is not empty
group_block(group, status, default_open) ==
  <<"<details class=\"group\"">>
    \o (IF default_open THEN <<" open">> ELSE <<>>)
    \o <<">\n  <summary class=\"groupSum\">\n    <span class=\"groupName\">">>
    \o esc(status)
    \o <<"</span>\n    <span class=\"groupCount\">">>
    \o str_int(Len(group))
    \o <<"</span>\n  </summary>\n  <div class=\"tableWrap\">\n",
         "    <table class=\"itemsTable\">\n      <thead>\n",
         "        <tr><th>Status</th><th>Type</th><th>#</th><th>Title</th></tr>\n",
         "      </thead>\n      <tbody>\n        ">>
    \o render_rows(group)
    \o <<"\n      </tbody>\n    </table>\n  </div>\n</details>">>

\* a bug: a status without items gets a group too
render_group_of_empty(its, status, default_open) ==
  group_block(SelectSeq(its, LAMBDA it : status_of(it) = status),
              status, default_open)

render_group(its, status, default_open) ==
  LET group == SelectSeq(its, LAMBDA it : status_of(it) = status)
  IN  IF group = <<>> THEN <<>> ELSE group_block(group, status, default_open)

\* repo_url
repo_url(repo_full) ==
  IF repo_full = <<>> THEN <<>>
  ELSE <<"h", "t", "t", "p", "s", ":", "/", "/",
         "g", "i", "t", "h", "u", "b", ".", "c", "o", "m", "/">> \o repo_full

\* seg_keys and seg_class of render_repo_rows
seg_keys == <<INBOX, READY, DOING, BLOCKED, DONE, UNKNOWN>>

seg_class(k) ==
  CASE k = INBOX -> "seg inbox"
    [] k = READY -> "seg ready"
    [] k = DOING -> "seg doing"
    [] k = BLOCKED -> "seg blocked"
    [] k = DONE -> "seg done"
    [] OTHER -> "seg unknown"

\* f"{w:.4f}" for w = (n / total) * 100.0 with 0 < n <= total: the quotient
\* in units of 0.0001, rounded to the nearest (no quotient of counts this
\* small lies halfway)
format_width(n, tot) ==
  LET q == (2 * n * 1000000 + tot) \div (2 * tot)
      f == q % 10000
  IN  str_int(q \div 10000) \o <<".">>
        \o (IF f < 10 THEN <<"0", "0", "0">>
            ELSE IF f < 100 THEN <<"0", "0">>
            ELSE IF f < 1000 THEN <<"0">> ELSE <<>>)
        \o str_int(f)

\* one row of render_repo_rows
render_repo_row(r) ==
  LET repo  == r.repo
      tot == r.total
      segs  == [i \in DOMAIN seg_keys |->
                  LET n == r.counts[seg_keys[i]]
                  IN  IF tot <= 0 \/ n <= 0 THEN <<>>
                      ELSE <<"<span class='", seg_class(seg_keys[i]),
                             "' style='width:">> \o format_width(n, tot)
                             \o <<"%'></span>">>]
      bar   == <<"<div class='stack'>">> \o join(segs, <<>>) \o <<"</div>">>
      badge ==
        <<"<span class='mini'>I:">> \o str_int(r.counts[INBOX])
          \o <<"</span>", "<span class='mini'>R:">> \o str_int(r.counts[READY])
          \o <<"</span>", "<span class='mini'>Dg:">> \o str_int(r.counts[DOING])
          \o <<"</span>", "<span class='mini'>Bl:">>
          \o str_int(r.counts[BLOCKED])
          \o <<"</span>", "<span class='mini'>Dn:">> \o str_int(r.counts[DONE])
          \o <<"</span>", "<span class='mini warn'>U:">>
          \o str_int(r.counts[UNKNOWN]) \o <<"</span>">>
      link  == IF "/" \in Range(repo) /\ " " \notin Range(repo)
               THEN repo_url(repo) ELSE <<>>
      repo_html ==
        IF link # <<>>
        THEN <<"<a href='">> \o esc(link)
               \o <<"' target='_blank' rel='noopener noreferrer'>">>
               \o esc(repo) \o <<"</a>">>
        ELSE esc(repo)
  IN  <<"<tr>", "<td class='repoCol'>">> \o repo_html
        \o <<"<div class='sub small'>items: ">> \o str_int(tot)
        \o <<"</div></td>", "<td class='barCol'>">> \o bar
        \o <<"<div class='badges'>">> \o badge \o <<"</div></td>", "</tr>">>

render_repo_rows(summ) ==
  join([i \in DOMAIN summ |-> render_repo_row(summ[i])], <<"\n">>)

\* the quick links
PROJECT_V2_URL ==
  <<"h", "t", "t", "p", "s", ":", "/", "/", "g", "i", "t", "h", "u", "b",
      ".", "c", "o", "m", "/", "u", "s", "e", "r", "s", "/", "M", "a", "r",
      "i", "a", "C", "n", "i", "g", "h", "t", "m", "a", "r", "e", "/", "p",
      "r", "o", "j", "e", "c", "t", "s", "/", "1">>

ACTIONS_WORKFLOW_URL ==
  <<"h", "t", "t", "p", "s", ":", "/", "/", "g", "i", "t", "h", "u", "b",
      ".", "c", "o", "m", "/", "M", "a", "r", "i", "a", "C", "n", "i", "g",
      "h", "t", "m", "a", "r", "e", "/", "M", "y", "-", "M", "a", "n", "a",
      "g", "e", "r", "/", "a", "c", "t", "i", "o", "n", "s", "/", "w", "o",
      "r", "k", "f", "l", "o", "w", "s", "/", "d", "a", "s", "h", "b", "o",
      "a", "r", "d", ".", "y", "m", "l">>

REPO_URL ==
  <<"h", "t", "t", "p", "s", ":", "/", "/", "g", "i", "t", "h", "u", "b",
      ".", "c", "o", "m", "/", "M", "a", "r", "i", "a", "C", "n", "i", "g",
      "h", "t", "m", "a", "r", "e", "/", "M", "y", "-", "M", "a", "n", "a",
      "g", "e", "r">>

ISSUES_URL ==
  <<"h", "t", "t", "p", "s", ":", "/", "/", "g", "i", "t", "h", "u", "b",
      ".", "c", "o", "m", "/", "M", "a", "r", "i", "a", "C", "n", "i", "g",
      "h", "t", "m", "a", "r", "e", "/", "M", "y", "-", "M", "a", "n", "a",
      "g", "e", "r", "/", "i", "s", "s", "u", "e", "s">>

\* cards_spec of main: label, key, class
cards_spec ==
  << <<<<"I", "n", "b", "o", "x">>, INBOX, "c-inbox">>,
     <<<<"R", "e", "a", "d", "y">>, READY, "c-ready">>,
     <<<<"D", "o", "i", "n", "g">>, DOING, "c-doing">>,
     <<<<"B", "l", "o", "c", "k", "e", "d">>, BLOCKED, "c-blocked">>,
     <<<<"D", "o", "n", "e">>, DONE, "c-done">>,
     <<<<"U", "n", "k", "n", "o", "w", "n">>, UNKNOWN, "c-unknown">> >>

\* the list cards_html of main
render_cards(cnt) ==
  [i \in DOMAIN cards_spec |->
     <<"<div class='card ", cards_spec[i][3], "'>", "<div class='k'>">>
       \o esc(cards_spec[i][1]) \o <<"</div>", "<div class='v'>">>
       \o str_int(cnt[cards_spec[i][2]]) \o <<"</div>", "</div>">>]

\* v_html of main
render_violations(vs) ==
  IF vs # <<>>
  THEN <<"<div class='panel panel-warn'><h2>Rule Violations</h2><ul>">>
         \o join([i \in DOMAIN vs |-> <<"<li>">> \o esc(vs[i]) \o <<"</li>">>],
                 <<"\n">>)
         \o <<"</ul></div>">>
  ELSE <<"<div class='panel panel-ok'><h2>Rule Violations</h2><p>U+306AU+3057</p></div>">>

\* groups_html of main
render_groups(its) ==
  LET groups == << render_group(its, INBOX, TRUE),
                   render_group(its, READY, TRUE),
                   render_group(its, DOING, TRUE),
                   render_group(its, BLOCKED, TRUE),
                   render_group(its, DONE, FALSE),
                   render_group(its, UNKNOWN, FALSE) >>
  IN  join(SelectSeq(groups, LAMBDA g : g # <<>>), <<"\n", "\n">>)

\* the f-string html of main
render_html(ts, tot, its, cards, vh, rrows, groups) ==
  <<"<!doctype html>\n<html lang=\"ja\">\n<head>[...]</head>\n<body>\n",
    "  <div class=\"wrap\">\n    <header>\n      <h1>My-Manager Dashboard</h1>\n",
    "      <div class=\"meta\">\n        Generated: <b>">>
    \o esc(now_jst_str(ts))
    \o <<"</b><br/>\n        Total (reported): <b>">> \o str_int(tot)
    \o <<"</b> / Items: <b>">> \o str_int(Len(its))
    \o <<"</b>\n      </div>\n\n      <div class=\"links\">\n",
         "        <a class=\"btn primary\" href=\"">>
    \o esc(ACTIONS_WORKFLOW_URL)
    \o <<"\" target=\"_blank\" rel=\"noopener noreferrer\">U+66F4U+65B0U+FF08ActionsU+FF09</a>\n",
         "        <a class=\"btn\" href=\"">>
    \o esc(PROJECT_V2_URL)
    \o <<"\" target=\"_blank\" rel=\"noopener noreferrer\">Project Board</a>\n",
         "        <a class=\"btn\" href=\"">>
    \o esc(ISSUES_URL)
    \o <<"\" target=\"_blank\" rel=\"noopener noreferrer\">Issues</a>\n",
         "        <a class=\"btn\" href=\"">>
    \o esc(REPO_URL)
    \o <<"\" target=\"_blank\" rel=\"noopener noreferrer\">Repo</a>\n",
         "        <span class=\"hint\">[...]</span>\n      </div>\n\n",
         "      <div class=\"grid\">\n        ">>
    \o join(cards, <<>>)
    \o <<"\n      </div>\n    </header>\n\n    ">>
    \o vh
    \o <<"\n\n    <h2 class=\"section\">Repositories</h2>\n    <div class=\"panel\">\n",
         "      <table class=\"repoTable\">\n",
         "        <thead><tr><th>Repository</th><th>Status composition</th></tr></thead>\n",
         "        <tbody>\n          ">>
    \o rrows
    \o <<"\n        </tbody>\n      </table>\n    </div>\n\n",
         "    <h2 class=\"section\">Items</h2>\n    ">>
    \o groups
    \o <<"\n  </div>\n</body>\n</html>\n">>

----------------------------------------------------------------------------
(* What raises.  A value of the snapshot may also be an int where the code  *)
(* expects a str, and content a str where it expects a dict ("str").        *)

\* x or "" is an int: the int is not 0
truthy_int(x) == x.t = "int" /\ Truthy(x)

\* sorted() compares the titles of two items of one status rank, and < of
\* an int and a str raises TypeError
sort_items_raises(its) ==
  \E i \in DOMAIN its : \E j \in DOMAIN its :
    /\ key(its[i])[1] = key(its[j])[1]
    /\ truthy_int(get(its[i], "title"))
    /\ ~truthy_int(get(its[j], "title"))

\* a bug: the body is not defaulted, and search(None) raises
violations_raises_without_body(its) ==
  \E i \in DOMAIN its :
    \/ its[i].content = "str"
    \/ /\ status_of(its[i]) = BLOCKED
       /\ ~Truthy(content_get(its[i], "body")) \/ truthy_int(content_get(its[i], "body"))

\* violations: c.get of a str raises AttributeError (the loop of rule 3 does
\* it for every item), RE_NEXT.search of an int raises TypeError
violations_raises(its) ==
  \E i \in DOMAIN its :
    \/ its[i].content = "str"
    \/ /\ status_of(its[i]) = BLOCKED
       /\ truthy_int(content_get(its[i], "body"))

\* repo_key: c.get of a str, and strip of an int, raise AttributeError
repo_key_raises(it) ==
  \/ it.content = "str"
  \/ truthy_int(content_get(it, "crepo"))
  \/ ~Truthy(content_get(it, "crepo")) /\ truthy_int(get(it, "repository"))

build_repo_summary_raises(its) == \E i \in DOMAIN its : repo_key_raises(its[i])

\* render_rows: c.get of a str, strip of an int (repository, title in
\* infer_type, body) and replace of an int in esc (url, title) raise
render_rows_raises(its) ==
  \E i \in DOMAIN its :
    \/ its[i].content = "str"
    \/ truthy_int(content_get(its[i], "crepo"))
    \/ truthy_int(get(its[i], "title"))
    \/ truthy_int(content_get(its[i], "body"))
    \/ truthy_int(content_get(its[i], "url"))

\* every item is in one of the six groups that main renders
render_groups_raises(its) == render_rows_raises(its)

\* f.write(html) encodes the text as utf-8
encode_raises(text) == SURROGATE \in Range(text)

----------------------------------------------------------------------------
(* The list a function was given, as it is after the call *)

\* a bug: items.sort(key=key) in place of sorted(items, key=key)
items_after_sort_items_in_place(its) == sort_items(its)

\* sorted() builds a new list and reads the items through get only
items_after_sort_items(its) == its

\* build_counts reads the items through get only
items_after_build_counts(its) == its

\* violations reads the items through get only
items_after_violations(its) == its

\* build_repo_summary reads the items through get only; acc and out are new
items_after_build_repo_summary(its) == its

----------------------------------------------------------------------------
(* Inputs *)

MaxItems == 4
MaxPieces == 4

\* an item of the snapshot; url, body and crepo are keys of its content dict
\* and are Absent unless content is "dict"
\* number is content.number
Item(status, title, repository, content, url, body, crepo) ==
  [status |-> status, title |-> title, repository |-> repository,
   content |-> content, url |-> url, body |-> body, crepo |-> crepo,
   number |-> Absent]

WithNumber(it, num) == [it EXCEPT !.number = num]

\* items that differ in status, title, body, url and repository
Pool ==
  { Item(Str(DOING), Str(<<"P", "1">>), Absent, "dict",
         Str(<<"u", "1">>), Absent, Str(<<"o", "/", "a">>)),
    Item(Str(DOING), Str(<<"a">>), Absent, "dict",
         Absent, Str(<<"H", "E", "L", "P", "1", "a">>), Str(<<"o", "/", "b">>)),
    Item(Str(BLOCKED), Str(<<"b">>), Absent, "dict",
         Str(<<"u", "2">>), Str(<<"x">>), Str(<<"o", "/", "b">>)),
    Item(Str(BLOCKED), Absent, Str(<<"o", "/", "a">>), "None",
         Absent, Absent, Absent),
    Item(Str(BLOCKED), Str(<<"a">>), Absent, "dict",
         Str(<<"u", "3">>), Str(<<NEXT_SIGN, " ">> \o NEXT_WORD \o <<" ", "x">>),
         Absent),
    Item(Str(DONE), Str(<<>>), Str(<<"o", "/", "b">>), "dict",
         None, Str(<<"x", "\n", "p", "1">>), Str(<<" ">>)),
    Item(None, None, Absent, "absent", Absent, Absent, Absent),
    Item(Str(INBOX), Str(<<"b">>), Absent, "dict",
         Absent, None, Str(<<"o", "/", "b", " ">>)) }

\* the sequences of at most n elements of S
RECURSIVE SeqsUpTo(_, _)
SeqsUpTo(S, n) ==
  IF n = 0 THEN {<<>>}
  ELSE LET prev == SeqsUpTo(S, n - 1)
       IN  prev \cup {Append(q, x) : q \in prev, x \in S}

\* the texts made of at most n of the pieces
RECURSIVE Texts(_, _)
Texts(pieces, n) ==
  IF n = 0 THEN {<<>>}
  ELSE LET prev == Texts(pieces, n - 1)
       IN  prev \cup {t \o p : t \in prev, p \in pieces}

RawStatuses ==
  {Absent, None, Str(<<>>), Str(UNKNOWN),
   Str(<<"i", "n", "b", "o", "x">>), Str(<<" ", "I", "n", "b", "o", "x">>),
   Str(<<"D", "o", "n", "e", " ">>)}
    \cup {Str(s) : s \in Range(STATUS_ORDER)}

ProbeTitles ==
  {Absent, None, Str(<<>>), Str(<<"a">>), Str(<<"B">>), Str(<<"a", "b">>)}

\* two items of any status and title
StatusProbes ==
  LET one == {Item(st, t, Absent, "absent", Absent, Absent, Absent) :
                st \in RawStatuses, t \in ProbeTitles}
  IN  {<<a, b>> : a \in one, b \in one}

NextPieces ==
  {<<NEXT_SIGN>>, <<" ">>, <<"\n">>, NEXT_WORD, <<"n", "e", "x", "t", ":">>,
   <<"x">>}

\* one Blocked item of any body
BodyProbes ==
  {<<Item(Str(BLOCKED), Str(<<"t">>), Absent, "dict", Str(<<"u">>), Str(b),
          Absent)>> : b \in Texts(NextPieces, MaxPieces)}

P1Pieces == {<<"P">>, <<"p">>, <<"1">>, <<"a">>, <<"-">>, <<"_">>}

P1Bodies == {Absent, None, Str(<<"1">>), Str(<<"P", "1">>)}

\* an item of any title and body, before an item that holds the token P1
P1Probes ==
  {<<Item(Str(DONE), Str(t), Absent, "dict", Absent, b, Absent),
     Item(Str(READY), Str(<<"P", "1">>), Absent, "absent", Absent, Absent,
          Absent)>> : t \in Texts(P1Pieces, MaxPieces), b \in P1Bodies}

\* the item lists the functions are applied to
Inputs ==
  SeqsUpTo(Pool, MaxItems) \cup StatusProbes \cup BodyProbes \cup P1Probes

----------------------------------------------------------------------------
(* main(): the steps of one report build *)

\* the snapshot file: t says what it holds ("invalid" is not JSON, "dict" an
\* object, the others another JSON value); of an object, items_t says what
\* the key items holds, items is its list, other is its value when it is an
\* int (digits), a str (characters) or an object (keys)
Snapshot(t, items_t, its, other, totalCount) ==
  [t |-> t, items_t |-> items_t, items |-> its, other |-> other,
   totalCount |-> totalCount]

\* Python's truth value of src.get("items")
items_truthy(src) ==
  CASE src.items_t = "list" -> src.items # <<>>
    [] src.items_t = "int" -> src.other # <<"0">>
    [] src.items_t \in {"str", "dict"} -> src.other # <<>>
    [] src.items_t = "true" -> TRUE
    [] OTHER -> FALSE

\* whether len(items) raises, and what it returns
len_raises(src) == items_truthy(src) /\ src.items_t \in {"int", "true"}

len_items(src) ==
  IF ~items_truthy(src) THEN 0
  ELSE IF src.items_t = "list" THEN Len(src.items)
  ELSE Len(src.other)

\* whether sort_items(items) raises: sorted() of an int or a bool, and
\* it.get of an element that is a character of a str or a key of a dict
sort_raises(src) == items_truthy(src) /\ src.items_t # "list"

\* the snapshots of the runs: objects with a list of items, without and with
\* totalCount; items with markup in every text; items with a task type and
\* a number; and documents of another shape
MaxSnapshotItems == 3

\* six items of six kinds: five statuses, with and without content
SnapshotPool == {it \in Pool : it.title # Str(<<"a">>)}

ObjectOf(its, totalCount) == Snapshot("dict", "list", its, <<>>, totalCount)

MarkupPieces ==
  { <<"&">>, <<"<">>, <<">">>, <<"\"">>, <<"'">>, <<"a">>,
    <<"&", "l", "t", ";">> }

MarkupTexts ==
  {<<>>} \cup MarkupPieces \cup {a \o b : a \in MarkupPieces, b \in MarkupPieces}

MarkupProbes ==
  { <<Item(Str(BLOCKED), Str(t), Str(t), "dict", Str(t), Str(t), Str(t))>> :
      t \in MarkupTexts }

TypeProbes ==
  { <<WithNumber(Item(Str(READY),
                      Str(<<" ", "[", "v", "E", "R", "i", "f", "y", "]", " ",
                            "x">>),
                      Absent, "dict", Str(<<"u", "1">>), Absent,
                      Str(<<"o", "/", "a">>)),
                 IntVal(12)),
      WithNumber(Item(Str(READY), Str(<<"[", "D", "e", "c", "i", "d", "e">>),
                      Absent, "dict", Absent, Absent, Absent),
                 Str(<<"n", "/", "a">>)),
      WithNumber(Item(Str(<<"r", "e", "a", "d", "y">>),
                      Str(<<"[", "I", "m", "p", "l", "e", "m", "e", "n", "t",
                            "]">>),
                      Absent, "dict", Absent, Absent, Absent),
                 None)>> }

\* lists with the anomalies of an item: a null or missing status, title,
\* repository, content, url and body, and a number that is no number
AnomalyProbes ==
  { <<Item(None, None, None, "None", Absent, Absent, Absent),
      WithNumber(Item(Absent, Absent, Absent, "dict", None, None, None),
                 Str(<<"n", "/", "a">>)),
      WithNumber(Item(Str(DOING), Str(<<"t">>), Absent, "dict",
                      Str(<<"u", "1">>), Str(<<"x">>), Str(<<"o", "/", "a">>)),
                 IntVal(7))>> }

\* lists with a value of a type the code does not expect, or a str that
\* cannot be encoded
PlainItem(status, title) ==
  Item(Str(status), title, Absent, "dict", Str(<<"u", "1">>), Str(<<"x">>),
       Str(<<"o", "/", "a">>))

TypeErrorItems ==
  { PlainItem(DOING, IntVal(5)),
    [PlainItem(BLOCKED, Str(<<"t">>)) EXCEPT !.body = IntVal(5)],
    [PlainItem(DOING, Str(<<"t">>)) EXCEPT !.body = IntVal(5)],
    [PlainItem(DOING, Str(<<"t">>)) EXCEPT !.content = "str"],
    [PlainItem(DOING, Str(<<"t">>)) EXCEPT !.crepo = IntVal(5)],
    [PlainItem(DOING, Str(<<"t">>)) EXCEPT !.crepo = None,
                                           !.repository = IntVal(5)],
    [PlainItem(DOING, Str(<<"t">>)) EXCEPT !.url = IntVal(5)],
    PlainItem(DOING, Str(<<"x", SURROGATE>>)),
    [PlainItem(DOING, Str(<<"t">>)) EXCEPT !.body = Str(<<SURROGATE>>)] }

TypeErrorProbes ==
  { <<a>> : a \in TypeErrorItems }
  \cup { <<PlainItem(DOING, Str(<<"a">>)), a>> : a \in TypeErrorItems }
  \cup { <<PlainItem(DONE, Str(<<"a">>)), a>> : a \in TypeErrorItems }

TotalCounts == {None, IntVal(0), IntVal(1), IntVal(3)}

OtherShapes ==
  { Snapshot(t, "absent", <<>>, <<>>, Absent) :
      t \in {"invalid", "list", "str", "int", "null"} }
  \cup { Snapshot("dict", k[1], <<>>, k[2], tc) :
           k \in { <<"absent", <<>>>>, <<"None", <<>>>>, <<"false", <<>>>>,
                   <<"true", <<>>>>, <<"int", <<"0">>>>, <<"int", <<"5">>>>,
                   <<"str", <<>>>>, <<"str", <<"a", "b">>>>,
                   <<"dict", <<>>>>, <<"dict", <<"a">>>> },
           tc \in {Absent, IntVal(2)} }

Snapshots ==
  { ObjectOf(its, Absent) :
      its \in SeqsUpTo(SnapshotPool, MaxSnapshotItems)
                \cup MarkupProbes \cup TypeProbes \cup AnomalyProbes
                \cup TypeErrorProbes }
  \cup { ObjectOf(its, tc) : its \in SeqsUpTo(Pool, 1), tc \in TotalCounts }
  \cup OtherShapes

\* the values of int(time.time()): the epoch and a second of 2023
GenTimes == {0, 1700000000}

NO_FILE == [exists |-> FALSE, text |-> <<>>]

OLD_FILE == [exists |-> TRUE, text |-> <<"<!-- the report of the run before -->">>]

Init ==
  /\ pc = "start"
  /\ snapshot \in Snapshots
  /\ file \in {NO_FILE, OLD_FILE}
  /\ items = <<>>
  /\ items_sorted = <<>>
  /\ counts = <<>>
  /\ v = <<>>
  /\ repo_summ = <<>>
  /\ total = 0
  /\ gen_ts = 0
  /\ cards_html = <<>>
  /\ v_html = <<>>
  /\ repo_rows = <<>>
  /\ groups_html = <<>>
  /\ html = <<>>
  /\ NoBoot

\* src = read_json(...); items = src.get("items") or [];
\* total = int(src.get("totalCount") or len(items)); gen_ts = int(time.time()).
\* json.load raises on text that is not JSON, src.get on a document that is
\* not an object, len on an int or a bool
ReadJson ==
  /\ pc = "start"
  /\ IF \/ snapshot.t # "dict"
        \/ ~Truthy(get(snapshot, "totalCount")) /\ len_raises(snapshot)
     THEN /\ pc' = "failed"
          /\ UNCHANGED <<items, total, gen_ts>>
     ELSE /\ pc' = "loaded"
          /\ items' = IF items_truthy(snapshot) /\ snapshot.items_t = "list"
                      THEN snapshot.items ELSE <<>>
          /\ total' = IF Truthy(get(snapshot, "totalCount"))
                      THEN int(get(snapshot, "totalCount"))
                      ELSE len_items(snapshot)
          /\ \E ts \in GenTimes : gen_ts' = ts
  /\ UNCHANGED <<items_sorted, counts, v, repo_summ, snapshot, file,
                 cards_html, v_html, repo_rows, groups_html, html>>
  /\ UNCHANGED boot_vars

\* items_sorted = sort_items(items)
SortItems ==
  /\ pc = "loaded"
  /\ IF sort_raises(snapshot) \/ sort_items_raises(items)
     THEN /\ pc' = "failed"
          /\ UNCHANGED <<items, items_sorted>>
     ELSE /\ pc' = "sorted"
          /\ items_sorted' = sort_items(items)
          /\ items' = items_after_sort_items(items)
  /\ UNCHANGED <<counts, v, repo_summ, run_vars>>
  /\ UNCHANGED boot_vars

\* counts = build_counts(items_sorted)
BuildCounts ==
  /\ pc = "sorted"
  /\ counts' = build_counts(items_sorted)
  /\ pc' = "counted"
  /\ UNCHANGED <<items, items_sorted, v, repo_summ, run_vars>>
  /\ UNCHANGED boot_vars

\* v = violations(items_sorted)
Violations ==
  /\ pc = "counted"
  /\ IF violations_raises(items_sorted)
     THEN pc' = "failed" /\ UNCHANGED v
     ELSE pc' = "checked" /\ v' = violations(items_sorted)
  /\ UNCHANGED <<items, items_sorted, counts, repo_summ, run_vars>>
  /\ UNCHANGED boot_vars

\* the loop that fills cards_html
RenderCards ==
  /\ pc = "checked"
  /\ cards_html' = render_cards(counts)
  /\ pc' = "cards"
  /\ UNCHANGED <<items, items_sorted, counts, v, repo_summ, snapshot, file,
                 total, gen_ts, v_html, repo_rows, groups_html, html>>
  /\ UNCHANGED boot_vars

\* v_html
RenderViolations ==
  /\ pc = "cards"
  /\ v_html' = render_violations(v)
  /\ pc' = "warned"
  /\ UNCHANGED <<items, items_sorted, counts, v, repo_summ, snapshot, file,
                 total, gen_ts, cards_html, repo_rows, groups_html, html>>
  /\ UNCHANGED boot_vars

\* repo_summ = build_repo_summary(items_sorted)
BuildRepoSummary ==
  /\ pc = "warned"
  /\ IF build_repo_summary_raises(items_sorted)
     THEN pc' = "failed" /\ UNCHANGED repo_summ
     ELSE pc' = "summarised" /\ repo_summ' = build_repo_summary(items_sorted)
  /\ UNCHANGED <<items, items_sorted, counts, v, run_vars>>
  /\ UNCHANGED boot_vars

\* repo_rows = render_repo_rows(repo_summ)
RenderRepoRows ==
  /\ pc = "summarised"
  /\ repo_rows' = render_repo_rows(repo_summ)
  /\ pc' = "repo_rows"
  /\ UNCHANGED <<items, items_sorted, counts, v, repo_summ, snapshot, file,
                 total, gen_ts, cards_html, v_html, groups_html, html>>
  /\ UNCHANGED boot_vars

\* groups and groups_html
RenderGroups ==
  /\ pc = "repo_rows"
  /\ IF render_groups_raises(items_sorted)
     THEN pc' = "failed" /\ UNCHANGED groups_html
     ELSE pc' = "groups" /\ groups_html' = render_groups(items_sorted)
  /\ UNCHANGED <<items, items_sorted, counts, v, repo_summ, snapshot, file,
                 total, gen_ts, cards_html, v_html, repo_rows, html>>
  /\ UNCHANGED boot_vars

\* html = f"""..."""
RenderHtml ==
  /\ pc = "groups"
  /\ html' = render_html(gen_ts, total, items_sorted, cards_html, v_html,
                         repo_rows, groups_html)
  /\ pc' = "html"
  /\ UNCHANGED <<items, items_sorted, counts, v, repo_summ, snapshot, file,
                 total, gen_ts, cards_html, v_html, repo_rows, groups_html>>
  /\ UNCHANGED boot_vars

\* os.makedirs; open("docs/index.html", "w"), which empties the file;
\* f.write(html), which encodes the text before it writes any of it; print
WriteFile ==
  /\ pc = "html"
  /\ IF encode_raises(html)
     THEN pc' = "failed" /\ file' = [exists |-> TRUE, text |-> <<>>]
     ELSE pc' = "done" /\ file' = [exists |-> TRUE, text |-> html]
  /\ UNCHANGED <<items, items_sorted, counts, v, repo_summ, snapshot,
                 total, gen_ts, cards_html, v_html, repo_rows, groups_html,
                 html>>
  /\ UNCHANGED boot_vars

Next ==
  \/ ReadJson
  \/ SortItems
  \/ BuildCounts
  \/ Violations
  \/ RenderCards
  \/ RenderViolations
  \/ BuildRepoSummary
  \/ RenderRepoRows
  \/ RenderGroups
  \/ RenderHtml
  \/ WriteFile

Spec == Init /\ [][Next]_vars

----------------------------------------------------------------------------
(* Each function applied to an item list of its own *)

\* no run of main: no files, and the locals of main unset
NO_SNAPSHOT == Snapshot("none", "absent", <<>>, <<>>, Absent)

NoRun ==
  /\ snapshot = NO_SNAPSHOT
  /\ file = NO_FILE
  /\ total = 0
  /\ gen_ts = 0
  /\ cards_html = <<>>
  /\ v_html = <<>>
  /\ repo_rows = <<>>
  /\ groups_html = <<>>
  /\ html = <<>>

InitFn ==
  /\ pc = "call"
  /\ items \in Inputs
  /\ items_sorted = <<>>
  /\ counts = <<>>
  /\ v = <<>>
  /\ repo_summ = <<>>
  /\ NoRun
  /\ NoBoot

CallBuildCounts ==
  /\ pc = "call"
  /\ counts' = build_counts(items)
  /\ items' = items_after_build_counts(items)
  /\ pc' = "build_counts"
  /\ UNCHANGED <<items_sorted, v, repo_summ, run_vars>>
  /\ UNCHANGED boot_vars

CallViolations ==
  /\ pc = "call"
  /\ v' = violations(items)
  /\ items' = items_after_violations(items)
  /\ pc' = "violations"
  /\ UNCHANGED <<items_sorted, counts, repo_summ, run_vars>>
  /\ UNCHANGED boot_vars

CallSortItems ==
  /\ pc = "call"
  /\ items_sorted' = sort_items(items)
  /\ items' = items_after_sort_items(items)
  /\ pc' = "sort_items"
  /\ UNCHANGED <<counts, v, repo_summ, run_vars>>
  /\ UNCHANGED boot_vars

CallBuildRepoSummary ==
  /\ pc = "call"
  /\ repo_summ' = build_repo_summary(items)
  /\ items' = items_after_build_repo_summary(items)
  /\ pc' = "build_repo_summary"
  /\ UNCHANGED <<items_sorted, counts, v, run_vars>>
  /\ UNCHANGED boot_vars

NextFn ==
  CallBuildCounts \/ CallViolations \/ CallSortItems \/ CallBuildRepoSummary

SpecFn == InitFn /\ [][NextFn]_vars

----------------------------------------------------------------------------
(* Each function applied to a short list, to see what it does to the list *)

InitFrame ==
  /\ pc = "call"
  /\ items \in SeqsUpTo(Pool, MaxSnapshotItems)
  /\ items_sorted = <<>>
  /\ counts = <<>>
  /\ v = <<>>
  /\ repo_summ = <<>>
  /\ NoRun
  /\ NoBoot

SpecFrame == InitFrame /\ [][NextFn]_vars

----------------------------------------------------------------------------
(* build_repo_summary applied to lists of items with all kinds of repository *)

RepoValues ==
  { Absent, None, Str(<<>>), Str(<<" ">>), Str(<<"o", "/", "a">>),
    Str(<<"f", "o", "o">>), Str(<<" ", "o", "/", "a", " ">>) }

\* items that differ in content, content.repository and repository
RepoProbeItems ==
  { Item(st, Str(<<"t">>), top, "dict", Absent, Absent, cr) :
      st \in {Str(DOING), None}, top \in RepoValues, cr \in RepoValues }
  \cup { Item(st, Str(<<"t">>), top, kind, Absent, Absent, Absent) :
      st \in {Str(DOING), None}, top \in RepoValues,
      kind \in {"None", "absent"} }

RepoProbes ==
  { <<a>> : a \in RepoProbeItems }
  \cup { <<a, b>> : a \in RepoProbeItems, b \in RepoProbeItems }

RepoInputs == SeqsUpTo(Pool, MaxItems) \cup RepoProbes

InitRepo ==
  /\ pc = "call"
  /\ items \in RepoInputs
  /\ items_sorted = <<>>
  /\ counts = <<>>
  /\ v = <<>>
  /\ repo_summ = <<>>
  /\ NoRun
  /\ NoBoot

NextRepo == CallBuildRepoSummary

SpecRepo == InitRepo /\ [][NextRepo]_vars

----------------------------------------------------------------------------
(* sort_items applied to a list, and again to its own result *)

SortInputs == SeqsUpTo(Pool, MaxSnapshotItems) \cup StatusProbes

InitSort ==
  /\ pc = "call"
  /\ items \in SortInputs
  /\ items_sorted = <<>>
  /\ counts = <<>>
  /\ v = <<>>
  /\ repo_summ = <<>>
  /\ NoRun
  /\ NoBoot

\* sort_items(sort_items(items))
CallSortItemsAgain ==
  /\ pc = "sort_items"
  /\ items_sorted' = sort_items(items_sorted)
  /\ pc' = "sort_items_twice"
  /\ UNCHANGED <<items, counts, v, repo_summ, run_vars>>
  /\ UNCHANGED boot_vars

NextSort == CallSortItems \/ CallSortItemsAgain

SpecSort == InitSort /\ [][NextSort]_vars

----------------------------------------------------------------------------
(* build_counts and build_repo_summary applied to a list, and to the same    *)
(* items in another order (main gives them sort_items(items))                *)

PermInputs == SeqsUpTo(SnapshotPool, MaxSnapshotItems)

\* the orders of n things
Perms(n) == {p \in [1..n -> 1..n] : \A i, j \in 1..n : p[i] = p[j] => i = j}

\* its read in the order p
Permuted(its, p) == [k \in DOMAIN its |-> its[p[k]]]

InitPerm ==
  /\ pc = "call"
  /\ items \in PermInputs
  /\ items_sorted = <<>>
  /\ counts = <<>>
  /\ v = <<>>
  /\ repo_summ = <<>>
  /\ NoRun
  /\ NoBoot

\* build_counts(reordered), after build_counts(items)
CallBuildCountsPermuted ==
  /\ pc = "build_counts"
  /\ \E p \in Perms(Len(items)) :
       /\ items_sorted' = Permuted(items, p)
       /\ counts' = build_counts(Permuted(items, p))
  /\ pc' = "build_counts_permuted"
  /\ UNCHANGED <<items, v, repo_summ, run_vars>>
  /\ UNCHANGED boot_vars

\* build_repo_summary(reordered), after build_repo_summary(items)
CallBuildRepoSummaryPermuted ==
  /\ pc = "build_repo_summary"
  /\ \E p \in Perms(Len(items)) :
       /\ items_sorted' = Permuted(items, p)
       /\ repo_summ' = build_repo_summary(Permuted(items, p))
  /\ pc' = "build_repo_summary_permuted"
  /\ UNCHANGED <<items, counts, v, run_vars>>
  /\ UNCHANGED boot_vars

\* counts = build_counts(sort_items(items)), as main computes it
CallBuildCountsSorted ==
  /\ pc = "build_counts"
  /\ items_sorted' = sort_items(items)
  /\ counts' = build_counts(sort_items(items))
  /\ pc' = "build_counts_sorted"
  /\ UNCHANGED <<items, v, repo_summ, run_vars>>
  /\ UNCHANGED boot_vars

\* repo_summ = build_repo_summary(sort_items(items)), as main computes it
CallBuildRepoSummarySorted ==
  /\ pc = "build_repo_summary"
  /\ items_sorted' = sort_items(items)
  /\ repo_summ' = build_repo_summary(sort_items(items))
  /\ pc' = "build_repo_summary_sorted"
  /\ UNCHANGED <<items, counts, v, run_vars>>
  /\ UNCHANGED boot_vars

NextPerm ==
  \/ CallBuildCounts
  \/ CallBuildRepoSummary
  \/ CallBuildCountsPermuted
  \/ CallBuildRepoSummaryPermuted
  \/ CallBuildCountsSorted
  \/ CallBuildRepoSummarySorted

SpecPerm == InitPerm /\ [][NextPerm]_vars

----------------------------------------------------------------------------
(* scripts/bootstrap_workspace_issues.py.  A command line, the standard      *)
(* output of git and the standard error of gh are Python strs; the standard  *)
(* output of a gh command asked for JSON is held as the value json.loads     *)
(* gives for it.  A message is a sequence whose elements are the literal     *)
(* stretches of its template (the leading word "skip:", "failed:" or         *)
(* "dry-run:" a stretch of its own) and the characters of the values.        *)

ISSUE_TITLE ==
  <<"[", "I", "m", "p", "l", "e", "m", "e", "n", "t", "]", " ", "R", "e",
    "p", "o", "s", "i", "t", "o", "r", "y", " ", "I", "n", "v", "e", "n",
    "t", "o", "r", "y", " ", "2", "0", "2", "6", "-", "0", "2">>

P2_LABEL == <<"P", "2">>

HTTPS_PREFIX ==
  <<"h", "t", "t", "p", "s", ":", "/", "/", "g", "i", "t", "h", "u", "b",
    ".", "c", "o", "m", "/">>

SSH_PREFIX ==
  <<"g", "i", "t", "@", "g", "i", "t", "h", "u", "b", ".", "c", "o", "m",
    ":">>

DOT_GIT == <<".", "g", "i", "t">>

EXCLUDED_REPOS ==
  {
    <<"m", "a", "r", "i", "a", "c", "n", "i", "g", "h", "t", "m", "a", "r",
      "e", "/", "m", "y", "-", "m", "a", "n", "a", "g", "e", "r">> }

\* s.lower()
lower(s) == [i \in DOMAIN s |-> Lower(s[i])]

\* sub in s
Contains(s, sub) ==
  \E i \in 0..(Len(s) - Len(sub)) : SubSeq(s, i + 1, i + Len(sub)) = sub

\* s.startswith(p)
startswith(s, p) == Len(s) >= Len(p) /\ SubSeq(s, 1, Len(p)) = p

PERMISSION_KEYS ==
  { <<"4", "0", "3">>,
    <<"4", "0", "4">>,
    <<"f", "o", "r", "b", "i", "d", "d", "e", "n">>,
    <<"n", "o", "t", " ", "f", "o", "u", "n", "d">>,
    <<"r", "e", "s", "o", "u", "r", "c", "e", " ", "n", "o", "t", " ", "a", "c", "c", "e", "s", "s", "i", "b", "l", "e">>,
    <<"m", "u", "s", "t", " ", "h", "a", "v", "e">>,
    <<"a", "u", "t", "h", "e", "n", "t", "i", "c", "a", "t", "i", "o", "n">>,
    <<"i", "n", "s", "u", "f", "f", "i", "c", "i", "e", "n", "t">> }

\* a bug: only the HTTP codes are looked for
is_permission_error_codes_only(stderr) ==
  \E word \in {<<"4", "0", "3">>, <<"4", "0", "4">>} :
    Contains(lower(stderr), word)

is_permission_error(stderr) ==
  \E word \in PERMISSION_KEYS : Contains(lower(stderr), word)

\* ([^/]+)/([^/]+?)(?:\.git)?$ matched on what follows the prefix: one "/"
\* between two parts that are not empty; the lazy second group leaves a
\* final ".git" to the optional group when something is left before it
match_owner_repo(rest) ==
  LET slashes == {k \in DOMAIN rest : rest[k] = "/"}
      k == CHOOSE k \in slashes : TRUE
      tail == SubSeq(rest, k + 1, Len(rest))
      n == Len(tail)
  IN  IF Cardinality(slashes) # 1 THEN NOT_PARSED
      ELSE IF k = 1 \/ n = 0 THEN NOT_PARSED
      ELSE [owner |-> SubSeq(rest, 1, k - 1),
            repo |-> IF n > 4 /\ SubSeq(tail, n - 3, n) = DOT_GIT
                     THEN SubSeq(tail, 1, n - 4) ELSE tail]

\* owner and repo of an origin URL, NOT_PARSED for None
parse_github_repo(origin) ==
  LET o == strip(origin)
  IN  IF startswith(o, HTTPS_PREFIX)
      THEN match_owner_repo(SubSeq(o, Len(HTTPS_PREFIX) + 1, Len(o)))
      ELSE IF startswith(o, SSH_PREFIX)
      THEN match_owner_repo(SubSeq(o, Len(SSH_PREFIX) + 1, Len(o)))
      ELSE NOT_PARSED

\* f"{owner}/{repo}"
repo_full(p) == p.owner \o <<"/">> \o p.repo

\* a bug: --dry-run has to be asked for
parse_args_execute_by_default(args) ==
  IF "--dry-run" \in Range(args) /\ "--no-dry-run" \in Range(args)
  THEN "error"
  ELSE IF "--dry-run" \in Range(args) THEN "dry_run" ELSE "execute"

\* the mode argparse selects: the two flags exclude each other, and the
\* default of dry_run is True
parse_args(args) ==
  IF "--dry-run" \in Range(args) /\ "--no-dry-run" \in Range(args)
  THEN "error"
  ELSE IF "--no-dry-run" \in Range(args) THEN "execute" ELSE "dry_run"

\* the commands process_repo can run, without their arguments
GIT_REMOTE_GET_URL == <<"git", "remote", "get-url", "origin">>
GH_API == <<"gh", "api">>
GH_API_PATCH == <<"gh", "api", "-X", "PATCH">>
GH_ISSUE_LIST == <<"gh", "issue", "list">>
GH_LABEL_LIST == <<"gh", "label", "list">>
GH_LABEL_CREATE == <<"gh", "label", "create">>
GH_ISSUE_CREATE == <<"gh", "issue", "create">>
GH_PROJECT_ITEM_ADD == <<"gh", "project", "item-add">>

\* what a process returned: its exit code, standard output and standard error
Reply(code, out, err) == [code |-> code, out |-> out, err |-> err]

\* run_cmd: (returncode, stdout.strip(), stderr.strip())
run_cmd(reply) == Reply(reply.code, strip(reply.out), strip(reply.err))

\* run_cmd of a gh command whose output is held as its JSON value
run_cmd_json(reply) == Reply(reply.code, reply.out, strip(reply.err))

\* an entry of the log: the command, the repository it names and its reply
Ran(cmd, repo, r) ==
  [cmd |-> cmd, repo |-> repo, code |-> r.code, out |-> r.out, err |-> r.err]

\* err or 'unknown error'
err_or_unknown(r) == IF r.err # <<>> THEN r.err ELSE <<"unknown error">>

\* err or out or 'unknown error'
err_or_out(r) ==
  IF r.err # <<>> THEN r.err
  ELSE IF r.out # <<>> THEN r.out ELSE <<"unknown error">>

\* err or out or 'unknown error' where out is the text of a JSON answer,
\* of which only whether it is empty is kept
err_or_json(r) ==
  IF r.err # <<>> THEN r.err
  ELSE IF r.out.t # "empty" THEN <<"{out}">> ELSE <<"unknown error">>

\* msg.startswith("skip:"), msg.startswith("failed:")
starts_with_word(msg, w) == msg # <<>> /\ msg[1] = w

\* a bug: a step that was skipped is reported as failed
status_of_message_never_skipped(msg) == "failed"

\* "skipped" if msg.startswith("skip:") else "failed"
status_of_message(msg) ==
  IF starts_with_word(msg, "skip:") THEN "skipped" ELSE "failed"

PATH == <<"w", "/", "r">>

RepoResult(repo, status, message) ==
  [path |-> PATH, repo |-> repo, status |-> status, message |-> message]

\* what a step of process_repo leaves: where it goes on, and the locals
Goes(to, p, url, res) ==
  [bpc |-> to, parsed |-> p, issue_url |-> url, result |-> res]

Returns(p, url, res) == Goes("returned", p, url, res)

\* an exception leaves process_repo
Raises(p, url) == Goes("raised", p, url, NO_RESULT)

\* json values
JsonInvalid == [t |-> "invalid"]
JsonEmpty == [t |-> "empty"]
JsonNull == [t |-> "null"]
JsonInt == [t |-> "int"]
JsonList(s) == [t |-> "list", v |-> s]
JsonDict(archived, has_issues) ==
  [t |-> "dict", archived |-> archived, has_issues |-> has_issues]
JsonEmptyDict == [t |-> "dict0"]

\* bool(x) of a JSON value
json_truthy(j) ==
  CASE j.t = "list" -> j.v # <<>>
    [] j.t = "dict" -> TRUE
    [] j.t = "int" -> TRUE
    [] OTHER -> FALSE

\* the first issue whose stripped title is ISSUE_TITLE, 0 when there is none
RECURSIVE inventory_issue_from(_, _)
inventory_issue_from(issues, i) ==
  IF i > Len(issues) THEN 0
  ELSE IF strip(IF issues[i].title.t = "str" THEN issues[i].title.s ELSE <<>>)
            = ISSUE_TITLE
       THEN i
       ELSE inventory_issue_from(issues, i + 1)

\* a bug: only the first issue of the answer is looked at
inventory_issue_first_only(issues) ==
  IF issues = <<>> THEN 0 ELSE inventory_issue_from(<<issues[1]>>, 1)

inventory_issue(issues) == inventory_issue_from(issues, 1)

\* issue_exists on the reply of gh issue list: (exists, message)
issue_exists(r) ==
  IF r.code # 0
  THEN IF is_permission_error(r.err)
       THEN [raises |-> FALSE, exists |-> FALSE,
             msg |-> <<"skip:", " cannot read issues (">>
                       \o err_or_unknown(r) \o <<")">>]
       ELSE [raises |-> FALSE, exists |-> FALSE,
             msg |-> <<"failed:", " gh issue list (">>
                       \o err_or_json(r) \o <<")">>]
  ELSE IF r.out.t \in {"invalid", "empty"}
  THEN [raises |-> FALSE, exists |-> FALSE,
        msg |-> <<"failed:", " invalid JSON from gh issue list">>]
  ELSE IF r.out.t = "dict0"
  THEN [raises |-> FALSE, exists |-> FALSE, msg |-> <<"not found">>]
  ELSE IF r.out.t # "list"
  THEN [raises |-> TRUE, exists |-> FALSE, msg |-> <<>>]
  ELSE LET k == inventory_issue(r.out.v)
       IN  IF k = 0
           THEN [raises |-> FALSE, exists |-> FALSE, msg |-> <<"not found">>]
           ELSE [raises |-> FALSE, exists |-> TRUE,
                 msg |-> IF Truthy(r.out.v[k].url) THEN r.out.v[k].url.s
                         ELSE <<"existing issue">>]

\* repo_metadata on the reply of gh api repos/{owner}/{repo}: (meta, reason)
repo_metadata(r) ==
  IF r.code # 0
  THEN IF is_permission_error(r.err)
       THEN [meta |-> JsonNull,
             reason |-> <<"skip:", " no access to repo metadata (">>
                          \o err_or_unknown(r) \o <<")">>]
       ELSE [meta |-> JsonNull,
             reason |-> <<"failed:", " gh api repos/{owner}/{repo} (">>
                          \o err_or_json(r) \o <<")">>]
  ELSE IF r.out.t \in {"invalid", "empty"}
  THEN [meta |-> JsonNull, reason |-> <<"failed:", " invalid JSON from gh api">>]
  ELSE [meta |-> r.out, reason |-> <<"ok">>]

\* out.splitlines()[-1].strip() if out else ""
last_line(out) ==
  IF out = <<>> THEN <<>>
  ELSE LET nl == {k \in DOMAIN out : out[k] = "\n"}
       IN  IF nl = {} THEN strip(out)
           ELSE LET k == CHOOSE k \in nl : \A j \in nl : j <= k
                IN  strip(SubSeq(out, k + 1, Len(out)))

HTTP == <<"h", "t", "t", "p">>

ALREADY_EXISTS ==
  <<"a", "l", "r", "e", "a", "d", "y", " ", "e", "x", "i", "s", "t", "s">>

\* ensure_label on the replies of gh label list and gh label create:
\* whether create was run, and (ok, message)
ensure_label(rl, rc, dry) ==
  IF rl.code # 0
  THEN IF is_permission_error(rl.err)
       THEN [raises |-> FALSE, created |-> FALSE, ok |-> FALSE,
             msg |-> <<"skip:", " cannot read labels (">>
                       \o err_or_unknown(rl) \o <<")">>]
       ELSE [raises |-> FALSE, created |-> FALSE, ok |-> FALSE,
             msg |-> <<"failed:", " gh label list (">>
                       \o err_or_json(rl) \o <<")">>]
  ELSE IF rl.out.t \in {"invalid", "empty"}
  THEN [raises |-> FALSE, created |-> FALSE, ok |-> FALSE,
        msg |-> <<"failed:", " invalid JSON from gh label list">>]
  ELSE IF rl.out.t \notin {"list", "dict0"}
  THEN [raises |-> TRUE, created |-> FALSE, ok |-> FALSE, msg |-> <<>>]
  ELSE IF rl.out.t = "list"
          /\ \E i \in DOMAIN rl.out.v : rl.out.v[i].name = Str(P2_LABEL)
  THEN [raises |-> FALSE, created |-> FALSE, ok |-> TRUE,
        msg |-> <<"label exists">>]
  ELSE IF dry
  THEN [raises |-> FALSE, created |-> FALSE, ok |-> TRUE,
        msg |-> <<"dry-run:", " would create label ">> \o P2_LABEL]
  ELSE IF rc.code # 0
  THEN IF Contains(lower(rc.err), ALREADY_EXISTS)
       THEN [raises |-> FALSE, created |-> TRUE, ok |-> TRUE,
             msg |-> <<"label already exists">>]
       ELSE IF is_permission_error(rc.err)
       THEN [raises |-> FALSE, created |-> TRUE, ok |-> FALSE,
             msg |-> <<"skip:", " cannot create label (">>
                       \o err_or_unknown(rc) \o <<")">>]
       ELSE [raises |-> FALSE, created |-> TRUE, ok |-> FALSE,
             msg |-> <<"failed:", " gh label create (">>
                       \o err_or_out(rc) \o <<")">>]
  ELSE [raises |-> FALSE, created |-> TRUE, ok |-> TRUE,
        msg |-> <<"label created">>]

\* what the commands can answer

Origins ==
  {
    <<"h", "t", "t", "p", "s", ":", "/", "/", "g", "i", "t", "h", "u", "b",
      ".", "c", "o", "m", "/", "o", "/", "r", "\n">>,
    <<"h", "t", "t", "p", "s", ":", "/", "/", "g", "i", "t", "h", "u", "b",
      ".", "c", "o", "m", "/", "o", "/", "r", ".", "g", "i", "t", "\n">>,
    <<"g", "i", "t", "@", "g", "i", "t", "h", "u", "b", ".", "c", "o", "m",
      ":", "O", "/", "r", ".", "g", "i", "t", "\n">>,
    <<"h", "t", "t", "p", "s", ":", "/", "/", "g", "i", "t", "l", "a", "b",
      ".", "c", "o", "m", "/", "o", "/", "r", "\n">>,
    <<"h", "t", "t", "p", "s", ":", "/", "/", "g", "i", "t", "h", "u", "b",
      ".", "c", "o", "m", "/", "M", "a", "r", "i", "a", "C", "n", "i", "g",
      "h", "t", "m", "a", "r", "e", "/", "M", "y", "-", "M", "a", "n", "a",
      "g", "e", "r", ".", "g", "i", "t", "\n">>,
    <<"h", "t", "t", "p", "s", ":", "/", "/", "g", "i", "t", "h", "u", "b",
      ".", "c", "o", "m", "/", "o", "/", "r", "/", "x", "\n">>,
    <<>> }

Errors ==
  { <<>>,
    <<"H", "T", "T", "P", " ", "4", "0", "3", "\n">>,
    <<"b", "o", "o", "m">> }

GitReplies ==
  { Reply(0, o, <<>>) : o \in Origins }
  \cup { Reply(2, <<>>, <<"e", "r", "r", "o", "r", "\n">>), Reply(1, <<>>, <<>>) }

\* a command that did not succeed
Failures == { Reply(1, <<>>, e) : e \in Errors }
JsonFailures == { Reply(1, JsonEmpty, e) : e \in Errors }

MetaReplies ==
  JsonFailures
  \cup { Reply(0, j, <<>>) :
           j \in { JsonInvalid, JsonEmpty, JsonNull, JsonEmptyDict,
                   JsonList(<<JsonInt>>),
                   JsonDict(TRUE, TRUE), JsonDict(FALSE, TRUE),
                   JsonDict(FALSE, FALSE) } }

PatchReplies == Failures \cup { Reply(0, <<"{", "}">>, <<>>) }

ISSUE_URL ==
  <<"h", "t", "t", "p", "s", ":", "/", "/", "i", "/", "1">>

Issue(title, url) == [title |-> title, url |-> url]

IssueLists ==
  { <<>>,
    <<Issue(Str(ISSUE_TITLE \o <<"x">>), Str(ISSUE_URL))>>,
    <<Issue(Str(ISSUE_TITLE), Str(ISSUE_URL))>>,
    <<Issue(Str(<<" ">> \o ISSUE_TITLE), None)>>,
    <<Issue(None, None), Issue(Str(ISSUE_TITLE), Str(ISSUE_URL))>> }

IssueListReplies ==
  JsonFailures
  \cup { Reply(0, j, <<>>) : j \in {JsonInvalid, JsonInt, JsonEmptyDict} }
  \cup { Reply(0, JsonList(l), <<>>) : l \in IssueLists }

Label(name) == [name |-> Str(name)]

LabelLists ==
  { <<>>, <<Label(<<"b", "u", "g">>)>>, <<Label(<<"b", "u", "g">>), Label(P2_LABEL)>> }

LabelListReplies ==
  JsonFailures
  \cup { Reply(0, j, <<>>) : j \in {JsonInvalid, JsonInt} }
  \cup { Reply(0, JsonList(l), <<>>) : l \in LabelLists }

LabelCreateReplies ==
  Failures
  \cup { Reply(1, <<>>, <<"P", "2", " ">> \o ALREADY_EXISTS), Reply(0, <<>>, <<>>) }

IssueCreateReplies ==
  Failures
  \cup { Reply(0, o, <<>>) :
           o \in { <<>>, ISSUE_URL \o <<"\n">>,
                   <<"o", "k", "\n">> \o ISSUE_URL, <<"o", "k">> } }

ItemAddReplies == Failures \cup { Reply(0, <<>>, <<>>) }

CommandLines ==
  { <<>>, <<"--dry-run">>, <<"--no-dry-run">>,
    <<"--dry-run", "--no-dry-run">>, <<"--no-dry-run", "--no-dry-run">> }

\* build_dashboard.py is not running
NoDashboard ==
  /\ pc = "none"
  /\ items = <<>>
  /\ items_sorted = <<>>
  /\ counts = <<>>
  /\ v = <<>>
  /\ repo_summ = <<>>
  /\ NoRun

InitBoot ==
  /\ bpc = "parse_args"
  /\ argv \in CommandLines
  /\ dry_run = TRUE
  /\ cmds = <<>>
  /\ parsed = NOT_PARSED
  /\ issue_url = <<>>
  /\ result = NO_RESULT
  /\ NoDashboard

\* the step's outcome becomes the state
Step(g) ==
  /\ bpc' = g.bpc
  /\ parsed' = g.parsed
  /\ issue_url' = g.issue_url
  /\ result' = g.result

\* args = parse_args(); main passes args.dry_run to process_repo
ParseArgs ==
  /\ bpc = "parse_args"
  /\ IF parse_args(argv) = "error"
     THEN bpc' = "usage" /\ UNCHANGED dry_run
     ELSE bpc' = "process_repo" /\ dry_run' = (parse_args(argv) = "dry_run")
  /\ UNCHANGED <<argv, cmds, parsed, issue_url, result, dash_vars>>

\* process_repo up to the exclusion of the manager repository
OriginLookup ==
  /\ bpc = "process_repo"
  /\ \E reply \in GitReplies :
       LET r == run_cmd(reply)
           p == parse_github_repo(r.out)
       IN  /\ cmds' = Append(cmds, Ran(GIT_REMOTE_GET_URL, <<>>, r))
           /\ Step(IF r.code # 0
                   THEN Returns(parsed, issue_url,
                          RepoResult(<<"-">>, "skipped",
                            <<"origin unavailable (">> \o err_or_out(r)
                              \o <<")">>))
                   ELSE IF p = NOT_PARSED
                   THEN Returns(parsed, issue_url,
                          RepoResult(<<"-">>, "skipped",
                            <<"origin is not github.com (">> \o r.out
                              \o <<")">>))
                   ELSE IF lower(repo_full(p)) \in EXCLUDED_REPOS
                   THEN Returns(p, issue_url,
                          RepoResult(repo_full(p), "skipped",
                                     <<"manager repo excluded">>))
                   ELSE Goes("repo_metadata", p, issue_url, result))
  /\ UNCHANGED <<argv, dry_run, dash_vars>>

\* meta, reason = repo_metadata(owner, repo), and the tests of meta
RepoMetadata ==
  /\ bpc = "repo_metadata"
  /\ \E reply \in MetaReplies :
       LET r == run_cmd_json(reply)
           m == repo_metadata(r)
       IN  /\ cmds' = Append(cmds, Ran(GH_API, repo_full(parsed), r))
           /\ Step(IF ~json_truthy(m.meta)
                   THEN Returns(parsed, issue_url,
                          RepoResult(repo_full(parsed),
                                     status_of_message(m.reason), m.reason))
                   ELSE IF m.meta.t # "dict"
                   THEN Raises(parsed, issue_url)
                   ELSE IF m.meta.archived
                   THEN Returns(parsed, issue_url,
                          RepoResult(repo_full(parsed), "skipped",
                                     <<"archived repository">>))
                   ELSE IF ~m.meta.has_issues
                   THEN Goes("enable_issues", parsed, issue_url, result)
                   ELSE Goes("issue_exists", parsed, issue_url, result))
  /\ UNCHANGED <<argv, dry_run, dash_vars>>

\* a bug: issues are enabled in dry-run mode too
EnableIssuesInAnyMode ==
  /\ bpc = "enable_issues"
  /\ \E reply \in PatchReplies :
       LET r == run_cmd(reply)
       IN  /\ cmds' = Append(cmds, Ran(GH_API_PATCH, repo_full(parsed), r))
           /\ Step(IF r.code = 0
                   THEN Goes("issue_exists", parsed, issue_url, result)
                   ELSE Returns(parsed, issue_url,
                          RepoResult(repo_full(parsed), "failed",
                                     <<"failed:", " enabling issues">>)))
  /\ UNCHANGED <<argv, dry_run, dash_vars>>

\* ok, msg = enable_issues(owner, repo, dry_run)
EnableIssues ==
  /\ bpc = "enable_issues"
  /\ IF dry_run
     THEN /\ cmds' = cmds
          /\ Step(Goes("issue_exists", parsed, issue_url, result))
     ELSE \E reply \in PatchReplies :
            LET r == run_cmd(reply)
                msg == IF r.code = 0 THEN <<"issues enabled">>
                       ELSE IF is_permission_error(r.err)
                       THEN <<"skip:", " cannot enable issues (">>
                              \o err_or_unknown(r) \o <<")">>
                       ELSE <<"failed:", " enabling issues (">>
                              \o err_or_out(r) \o <<")">>
            IN  /\ cmds' = Append(cmds,
                                  Ran(GH_API_PATCH, repo_full(parsed), r))
                /\ Step(IF r.code = 0
                        THEN Goes("issue_exists", parsed, issue_url, result)
                        ELSE Returns(parsed, issue_url,
                               RepoResult(repo_full(parsed),
                                          status_of_message(msg), msg)))
  /\ UNCHANGED <<argv, dry_run, dash_vars>>

\* exists, msg = issue_exists(owner, repo)
IssueExists ==
  /\ bpc = "issue_exists"
  /\ \E reply \in IssueListReplies :
       LET r == run_cmd_json(reply)
           e == issue_exists(r)
       IN  /\ cmds' = Append(cmds, Ran(GH_ISSUE_LIST, repo_full(parsed), r))
           /\ Step(IF e.raises THEN Raises(parsed, issue_url)
                   ELSE IF starts_with_word(e.msg, "skip:")
                   THEN Returns(parsed, issue_url,
                          RepoResult(repo_full(parsed), "skipped", e.msg))
                   ELSE IF starts_with_word(e.msg, "failed:")
                   THEN Returns(parsed, issue_url,
                          RepoResult(repo_full(parsed), "failed", e.msg))
                   ELSE IF e.exists
                   THEN Returns(parsed, issue_url,
                          RepoResult(repo_full(parsed), "skipped",
                            <<"issue already exists (">> \o e.msg \o <<")">>))
                   ELSE Goes("ensure_label", parsed, issue_url, result))
  /\ UNCHANGED <<argv, dry_run, dash_vars>>

\* ok, msg = ensure_label(owner, repo, dry_run)
EnsureLabel ==
  /\ bpc = "ensure_label"
  /\ \E reply \in LabelListReplies, create \in LabelCreateReplies :
       LET rl == run_cmd_json(reply)
           rc == run_cmd(create)
           l == ensure_label(rl, rc, dry_run)
           listed == Append(cmds, Ran(GH_LABEL_LIST, repo_full(parsed), rl))
       IN  /\ cmds' = IF l.created
                      THEN Append(listed,
                                  Ran(GH_LABEL_CREATE, repo_full(parsed), rc))
                      ELSE listed
           /\ Step(IF l.raises THEN Raises(parsed, issue_url)
                   ELSE IF ~l.ok
                   THEN Returns(parsed, issue_url,
                          RepoResult(repo_full(parsed),
                                     status_of_message(l.msg), l.msg))
                   ELSE Goes("create_issue", parsed, issue_url, result))
  /\ UNCHANGED <<argv, dry_run, dash_vars>>

\* issue_url, msg = create_issue(owner, repo, dry_run)
CreateIssue ==
  /\ bpc = "create_issue"
  /\ IF dry_run
     THEN /\ cmds' = cmds
          /\ Step(Goes("add_to_project", parsed,
                       <<"dry-run:", "//issue">>, result))
     ELSE \E reply \in IssueCreateReplies :
            LET r == run_cmd(reply)
                url == last_line(r.out)
                msg == IF r.code # 0
                       THEN IF is_permission_error(r.err)
                            THEN <<"skip:", " cannot create issue (">>
                                   \o err_or_unknown(r) \o <<")">>
                            ELSE <<"failed:", " gh issue create (">>
                                   \o err_or_out(r) \o <<")">>
                       ELSE IF ~startswith(url, HTTP)
                       THEN <<"failed:", " issue URL not returned">>
                       ELSE <<"issue created">>
            IN  /\ cmds' = Append(cmds,
                                  Ran(GH_ISSUE_CREATE, repo_full(parsed), r))
                /\ Step(IF r.code = 0 /\ startswith(url, HTTP)
                        THEN Goes("add_to_project", parsed, url, result)
                        ELSE Returns(parsed, issue_url,
                               RepoResult(repo_full(parsed),
                                          status_of_message(msg), msg)))
  /\ UNCHANGED <<argv, dry_run, dash_vars>>

\* ok, pmsg = add_to_project(...), and the RepoResult of a success
AddToProject ==
  /\ bpc = "add_to_project"
  /\ IF dry_run
     THEN /\ cmds' = cmds
          /\ Step(Returns(parsed, issue_url,
                    RepoResult(repo_full(parsed), "success",
                      <<"would create issue '">> \o ISSUE_TITLE
                        \o <<"' with label ">> \o P2_LABEL
                        \o <<" and add to project {project_owner}/{project_number}">>)))
     ELSE \E reply \in ItemAddReplies :
            LET r == run_cmd(reply)
                pmsg == IF is_permission_error(r.err)
                        THEN <<"skip:", " cannot add project item (">>
                               \o err_or_unknown(r) \o <<")">>
                        ELSE <<"failed:", " gh project item-add (">>
                               \o err_or_out(r) \o <<")">>
            IN  /\ cmds' = Append(cmds,
                                  Ran(GH_PROJECT_ITEM_ADD, issue_url, r))
                /\ Step(IF r.code # 0
                        THEN Returns(parsed, issue_url,
                               RepoResult(repo_full(parsed),
                                          status_of_message(pmsg), pmsg))
                        ELSE Returns(parsed, issue_url,
                               RepoResult(repo_full(parsed), "success",
                                 <<"created issue ">> \o issue_url
                                   \o <<" and added to project">>)))
  /\ UNCHANGED <<argv, dry_run, dash_vars>>

NextBoot ==
  \/ ParseArgs
  \/ OriginLookup
  \/ RepoMetadata
  \/ EnableIssues
  \/ IssueExists
  \/ EnsureLabel
  \/ CreateIssue
  \/ AddToProject

SpecBoot == InitBoot /\ [][NextBoot]_vars

----------------------------------------------------------------------------
(* Properties *)

\* the five named statuses and the six buckets, spelled out
Named == {INBOX, READY, DOING, BLOCKED, DONE}
Buckets == Named \cup {UNKNOWN}

\* the items of its whose raw status is the str s
WithStatus(its, s) == {i \in DOMAIN its : its[i].status = Str(s)}

\* the items of its whose raw status is none of the five named ones
Invalid(its) == {i \in DOMAIN its : its[i].status \notin {Str(s) : s \in Named}}

SixSum(c) ==
  c[INBOX] + c[READY] + c[DOING] + c[BLOCKED] + c[DONE] + c[UNKNOWN]

RECURSIVE SumTotals(_, _)
SumTotals(summ, i) ==
  IF i > Len(summ) THEN 0 ELSE summ[i].total + SumTotals(summ, i + 1)

\* C1: build_counts returns a mapping whose keys are exactly the six buckets,
\* each present even when zero, and whose values sum to the number of items.
C1_CountsShapeAndSum ==
  pc = "build_counts" =>
    /\ DOMAIN counts = Buckets
    /\ \A s \in Buckets : counts[s] \in 0..Len(items)
    /\ SixSum(counts) = Len(items)

\* several items counted, with a bucket left at zero
C1_Witness ==
  /\ pc = "build_counts"
  /\ Len(items) >= 3
  /\ counts[READY] = 0
  /\ counts[UNKNOWN] >= 1
  /\ counts[BLOCKED] >= 1

\* C2: every entry of build_repo_summary has the six buckets, its total is
\* the sum of its six counts, and the totals sum to the number of items; no
\* repository has two entries.
C2_RepoSummaryTotals ==
  pc = "build_repo_summary" =>
    /\ \A k \in DOMAIN repo_summ :
         /\ DOMAIN repo_summ[k].counts = Buckets
         /\ repo_summ[k].total = SixSum(repo_summ[k].counts)
    /\ \A k, l \in DOMAIN repo_summ :
         repo_summ[k].repo = repo_summ[l].repo => k = l
    /\ SumTotals(repo_summ, 1) = Len(items)

\* items of three repositories, the unknown one among them
C2_Witness ==
  /\ pc = "build_repo_summary"
  /\ Len(items) = 4
  /\ Len(repo_summ) = 3
  /\ \E k \in DOMAIN repo_summ :
       repo_summ[k].repo = UNKNOWN_REPO /\ repo_summ[k].total = 2

\* C3: normalize_status keeps exactly the five named statuses and turns every
\* other value into the catch-all, so each named bucket counts the items whose
\* raw status is that very str, the catch-all counts all the others, and
\* replacing an invalid status by another invalid one changes neither the
\* global counts nor the per-repository summary.
C3_NormalizeStatus ==
  /\ pc = "build_counts" =>
       /\ \A s \in Named : counts[s] = Cardinality(WithStatus(items, s))
       /\ counts[UNKNOWN] = Cardinality(Invalid(items))
       /\ \A i \in Invalid(items) : \A r \in RawStatuses :
            r \notin {Str(s) : s \in Named} =>
              build_counts([items EXCEPT ![i].status = r]) = counts
  /\ pc = "build_repo_summary" =>
       \A i \in Invalid(items) : \A r \in RawStatuses :
         r \notin {Str(s) : s \in Named} =>
           build_repo_summary([items EXCEPT ![i].status = r]) = repo_summ

\* a padded spelling and a case variant counted as unknown beside a named one
C3_Witness ==
  /\ pc = "build_counts"
  /\ Len(items) = 2
  /\ items[1].status = Str(<<" ", "I", "n", "b", "o", "x">>)
  /\ items[2].status = Str(<<"i", "n", "b", "o", "x">>)
  /\ counts[UNKNOWN] = 2
  /\ counts[INBOX] = 0

\* s begins with the str h
HasHead(s, h) == Len(s) >= Len(h) /\ SubSeq(s, 1, Len(h)) = h

\* the rule a message of v comes from
Rule(m) ==
  IF HasHead(m, WIP_HEAD) THEN 1
  ELSE IF HasHead(m, BLOCKED_HEAD) THEN 2
  ELSE IF HasHead(m, P1_HEAD) THEN 3
  ELSE 0

\* the messages of v that come from rule r, in the order of v
OfRule(msgs, r) == SelectSeq(msgs, LAMBDA m : Rule(m) = r)

\* the title, url and body of an item, the empty str when absent or null
TitleText(it) == IF it.title.t = "str" THEN it.title.s ELSE <<>>
UrlText(it) == IF it.content = "dict" /\ it.url.t = "str" THEN it.url.s ELSE <<>>
BodyText(it) ==
  IF it.content = "dict" /\ it.body.t = "str" THEN it.body.s ELSE <<>>

\* the body holds, at the start of a line, the sign, then whitespace of any
\* kind and length, then "Next:"
NextAtLineStart(b) ==
  \E i \in DOMAIN b :
    /\ i = 1 \/ b[i - 1] = "\n"
    /\ b[i] = NEXT_SIGN
    /\ \E j \in (i + 1)..Len(b) :
         /\ \A k \in (i + 1)..(j - 1) : IsSpace(b[k])
         /\ j + 4 <= Len(b)
         /\ <<b[j], b[j + 1], b[j + 2], b[j + 3], b[j + 4]>>
              = <<"N", "e", "x", "t", ":">>

\* the text holds "P1" or "p1" with no word character on either side
P1Token(t) ==
  \E i \in 1..(Len(t) - 1) :
    /\ t[i] \in {"P", "p"}
    /\ t[i + 1] = "1"
    /\ i = 1 \/ ~IsWord(t[i - 1])
    /\ i + 1 = Len(t) \/ ~IsWord(t[i + 2])

\* the Blocked items of its that fail the next-step check, in the order of its
Offending(its) ==
  SelectSeq(its, LAMBDA it :
    it.status = Str(BLOCKED) /\ ~NextAtLineStart(BodyText(it)))

\* the rule 2 message that names the item
Naming(it) ==
  BLOCKED_HEAD \o TitleText(it) \o <<" ", "(">> \o UrlText(it) \o <<")">>

NamingAll(its) == [k \in DOMAIN its |-> Naming(its[k])]

DoingCount(its) == Cardinality(WithStatus(its, DOING))

P1Count(its) ==
  Cardinality({i \in DOMAIN its :
    P1Token(TitleText(its[i]) \o <<"\n">> \o BodyText(its[i]))})

Bit(b) == IF b THEN 1 ELSE 0

\* C4: in a report build the rule 2 violations come in the snapshot order of
\* the offending Blocked items, the order of items before sort_items.
C4_Rule2SnapshotOrder ==
  pc \in {"checked", "summarised"} =>
    OfRule(v, 2) = NamingAll(Offending(items))

\* C5: the list violations returns is ordered by rule, 1 then 2 then 3, and
\* its length is [Doing > 2] + the Blocked items failing the next-step check
\* + [P1 items > 1].
C5_RuleOrderAndLength ==
  pc = "violations" =>
    /\ \A i, j \in DOMAIN v : i < j => Rule(v[i]) <= Rule(v[j])
    /\ \A i \in DOMAIN v : Rule(v[i]) \in {1, 2, 3}
    /\ Len(v) = Bit(DoingCount(items) > 2) + Len(Offending(items))
                  + Bit(P1Count(items) > 1)

\* all three rules fire on one list
C5_Witness ==
  /\ pc = "violations"
  /\ Len(v) = 3
  /\ Rule(v[1]) = 1
  /\ Rule(v[2]) = 2
  /\ Rule(v[3]) = 3

\* C6: violations emits one WIP-limit message, stating the Doing count and
\* the limit 2, when more than 2 items of the whole list are Doing, and none
\* when 2 or fewer are.
C6_WipLimit ==
  pc = "violations" =>
    IF DoingCount(items) > 2
    THEN /\ Len(OfRule(v, 1)) = 1
         /\ v[1] = WIP_HEAD \o str_int(DoingCount(items))
                     \o <<" ", "U+4EF6", "U+FF08", "U+4E0A", "U+9650", "2",
                          "U+FF09">>
    ELSE Len(OfRule(v, 1)) = 0

\* three Doing items of two repositories give count 3
C6_Witness ==
  /\ pc = "violations"
  /\ Len(items) = 3
  /\ DoingCount(items) = 3
  /\ \E i, j \in DOMAIN items : repo_of(items[i]) # repo_of(items[j])
  /\ v[1] = WIP_HEAD \o <<"3">> \o WIP_TAIL

\* C7: violations emits one rule 2 message per Blocked item that fails the
\* next-step check, with the item's title and URL verbatim (the empty str for
\* an absent one), and none for any other item.
C7_OnePerBlockedItem ==
  pc = "violations" => OfRule(v, 2) = NamingAll(Offending(items))

\* a Blocked item with the marker, one without title and URL, one with both
C7_Witness ==
  /\ pc = "violations"
  /\ Len(items) = 3
  /\ \A i \in DOMAIN items : items[i].status = Str(BLOCKED)
  /\ \E i \in DOMAIN items : NextAtLineStart(BodyText(items[i]))
  /\ Len(OfRule(v, 2)) = 2
  /\ \E k \in DOMAIN v : v[k] = BLOCKED_HEAD \o <<" ", "(", ")">>
  /\ \E k \in DOMAIN v : v[k] = BLOCKED_HEAD \o <<"b", " ", "(", "u", "2", ")">>

\* the lines of b: the stretches between newlines
LinesOf(b) ==
  {SubSeq(b, a, e) : <<a, e>> \in
     {q \in (1..(Len(b) + 1)) \X (0..Len(b)) :
        /\ q[2] >= q[1] - 1
        /\ q[1] = 1 \/ b[q[1] - 1] = "\n"
        /\ q[2] = Len(b) \/ b[q[2] + 1] = "\n"
        /\ \A k \in q[1]..q[2] : b[k] # "\n"}}

\* some line of b, once trimmed, begins with the sign followed by "Next:"
TrimmedLineMarked(b) ==
  \E l \in LinesOf(b) :
    LET t == strip(l)
    IN  t # <<>> /\ t[1] = NEXT_SIGN /\ HasHead(lstrip(Tail(t)), NEXT_WORD)

\* C8 as stated: a Blocked item passes the next-step check exactly when some
\* line of its body, after trimming, begins with the sign followed by "Next:".
C8_TrimmedLine ==
  (pc = "violations" /\ Len(items) = 1 /\ items[1].status = Str(BLOCKED)) =>
    ((v = <<>>) <=> TrimmedLineMarked(BodyText(items[1])))

\* C8 amended: a Blocked item passes the next-step check exactly when its
\* body (empty when absent or null) holds, at the very start of a line and
\* with no whitespace before it, the sign, then any whitespace, line breaks
\* included, then "Next:"; the match is case-sensitive.
C8_LineStartUntrimmed ==
  (pc = "violations" /\ Len(items) = 1 /\ items[1].status = Str(BLOCKED)) =>
    ((v = <<>>) <=> NextAtLineStart(BodyText(items[1])))

\* the marker behind a space: a line that the trimming of C8 would accept
C8_Witness ==
  /\ pc = "violations"
  /\ Len(items) = 1
  /\ items[1].status = Str(BLOCKED)
  /\ items[1].body = Str(<<" ", NEXT_SIGN, " ">> \o NEXT_WORD)
  /\ Len(v) = 1

\* C9: the P1 count is the number of items whose title and body, joined by a
\* newline, hold P1 as a standalone token in either case; violations emits one
\* priority-cap message, stating that count and the limit 1, when the count
\* exceeds 1, and none otherwise.
C9_PriorityCap ==
  pc = "violations" =>
    IF P1Count(items) > 1
    THEN /\ Len(OfRule(v, 3)) = 1
         /\ v[Len(v)] = P1_HEAD \o str_int(P1Count(items))
                          \o <<" ", "U+4EF6", "U+FF08", "U+4E0A", "U+9650",
                               "1", "U+FF09">>
    ELSE Len(OfRule(v, 3)) = 0

\* two standalone tokens and one inside "HELP1a": the count is 2, not 3
C9_Witness ==
  /\ pc = "violations"
  /\ Len(items) = 3
  /\ \E i \in DOMAIN items : BodyText(items[i]) = <<"H", "E", "L", "P", "1", "a">>
  /\ \E i \in DOMAIN items : TitleText(items[i]) = <<"P", "1">>
  /\ \E i \in DOMAIN items : BodyText(items[i]) = <<"x", "\n", "p", "1">>
  /\ v[Len(v)] = P1_HEAD \o <<"2">> \o P1_TAIL

\* the rank of an item in the display order, 5 for every other status
Rank(it) ==
  CASE it.status = Str(INBOX) -> 0
    [] it.status = Str(READY) -> 1
    [] it.status = Str(DOING) -> 2
    [] it.status = Str(BLOCKED) -> 3
    [] it.status = Str(DONE) -> 4
    [] OTHER -> 5

\* how often x occurs in the sequence q
Occurrences(q, x) == Cardinality({i \in DOMAIN q : q[i] = x})

\* C10: the output of sort_items holds the items of its input ordered by
\* (status rank, title): Inbox < Ready < Doing < Blocked < Done < any other
\* status, and within a rank by title, an absent title as the empty str.
C10_SortedByRankThenTitle ==
  pc = "sort_items" =>
    /\ Len(items_sorted) = Len(items)
    /\ \A x \in Range(items) :
         Occurrences(items_sorted, x) = Occurrences(items, x)
    /\ \A i, j \in DOMAIN items_sorted :
         i < j =>
           \/ Rank(items_sorted[i]) < Rank(items_sorted[j])
           \/ /\ Rank(items_sorted[i]) = Rank(items_sorted[j])
              /\ ~StrLess(TitleText(items_sorted[j]), TitleText(items_sorted[i]))

\* an unknown status moved behind Done, and an absent title moved to the front
\* of its rank
C10_Witness ==
  /\ pc = "sort_items"
  /\ Len(items) = 4
  /\ Rank(items[1]) = 5
  /\ Rank(items[2]) = 4
  /\ Rank(items[3]) = 3 /\ TitleText(items[3]) = <<"b">>
  /\ Rank(items[4]) = 3 /\ items[4].title = Absent
  /\ items_sorted = <<items[4], items[3], items[2], items[1]>>

\* the items of q that have the sort key of the item x, in the order of q
WithKeyOf(q, x) ==
  SelectSeq(q, LAMBDA y : Rank(y) = Rank(x) /\ TitleText(y) = TitleText(x))

\* C11: sort_items is stable: the items of equal status rank and equal title
\* come out in the order they went in.
C11_SortStable ==
  pc = "sort_items" =>
    \A x \in Range(items) : WithKeyOf(items_sorted, x) = WithKeyOf(items, x)

\* two different items of one rank and one title, kept in their order
C11_Witness ==
  /\ pc = "sort_items"
  /\ Len(items) = 2
  /\ items[1] # items[2]
  /\ items[1].status = Str(<<"i", "n", "b", "o", "x">>)
  /\ items[2].status = None
  /\ items[1].title = Absent
  /\ items[2].title = Str(<<>>)
  /\ items_sorted = items

\* C12: sort_items is idempotent: sorting the sorted list changes nothing.
C12_SortIdempotent ==
  [][pc' = "sort_items_twice" => items_sorted' = items_sorted]_vars

\* a list that the first sort reordered, sorted twice
C12_Witness ==
  /\ pc = "sort_items_twice"
  /\ Len(items) >= 3
  /\ items_sorted # items
  /\ Rank(items[1]) > Rank(items[2])

\* C13: no function mutates the list it is given or the items in it, and
\* sort_items returns a permutation of its input.
C13_InputNotMutated ==
  [][/\ items' = items
     /\ pc' = "sort_items" =>
          /\ Len(items_sorted') = Len(items)
          /\ \A x \in Range(items) :
               Occurrences(items_sorted', x) = Occurrences(items, x)]_vars

\* an unsorted list, sorted into a new one
C13_Witness ==
  /\ pc = "sort_items"
  /\ Len(items) = 3
  /\ items_sorted # items
  /\ items_sorted[1] = items[3]

\* a string of whitespace only, the empty string included
Blank(s) == \A i \in DOMAIN s : IsSpace(s[i])

\* a snapshot value that is a string with something other than whitespace
Present(x) == x.t = "str" /\ ~Blank(x.s)

ContentRepository(it) == IF it.content = "dict" THEN it.crepo ELSE Absent

\* the first of content.repository and repository that is a non-empty string
ChosenRepository(it) ==
  IF ContentRepository(it).t = "str" /\ ContentRepository(it).s # <<>>
  THEN ContentRepository(it).s
  ELSE IF it.repository.t = "str" /\ it.repository.s # <<>>
  THEN it.repository.s
  ELSE <<>>

HasSlash(s) == \E i \in DOMAIN s : s[i] = "/"

\* the total of the entry named r, 0 when there is none
TotalOf(summ, r) ==
  IF \E k \in DOMAIN summ : summ[k].repo = r
  THEN summ[CHOOSE k \in DOMAIN summ : summ[k].repo = r].total
  ELSE 0

\* C14 as stated: the items whose repository is not an "owner/name" string
\* (absent, empty, whitespace-only or without a slash) are the ones counted
\* under "(unknown repo)", and none is dropped.
C14_SlashlessUnderSentinel ==
  pc = "build_repo_summary" =>
    /\ TotalOf(repo_summ, UNKNOWN_REPO)
         = Cardinality({i \in DOMAIN items :
                          ~HasSlash(ChosenRepository(items[i]))})
    /\ SumTotals(repo_summ, 1) = Len(items)

\* C14: the items whose chosen repository value is absent, null, empty or
\* whitespace-only (or is the sentinel text itself) are the ones counted under
\* "(unknown repo)"; any other string, with a slash or not, is a group of its
\* own under its stripped text; no item is dropped.
C14_BlankUnderSentinel ==
  pc = "build_repo_summary" =>
    /\ TotalOf(repo_summ, UNKNOWN_REPO)
         = Cardinality({i \in DOMAIN items :
                          \/ Blank(ChosenRepository(items[i]))
                          \/ strip(ChosenRepository(items[i])) = UNKNOWN_REPO})
    /\ \A i \in DOMAIN items :
         ~Blank(ChosenRepository(items[i])) =>
           TotalOf(repo_summ, strip(ChosenRepository(items[i]))) >= 1
    /\ SumTotals(repo_summ, 1) = Len(items)

\* a whitespace-only repository under the sentinel, a slashless one on its own
C14_Witness ==
  /\ pc = "build_repo_summary"
  /\ Len(items) = 2
  /\ ContentRepository(items[1]) = Str(<<" ">>)
  /\ items[1].repository = Absent
  /\ ContentRepository(items[2]) = Str(<<"f", "o", "o">>)
  /\ TotalOf(repo_summ, UNKNOWN_REPO) = 1
  /\ TotalOf(repo_summ, <<"f", "o", "o">>) = 1

\* the key the claim gives an item
ClaimedKey(it) ==
  IF Present(ContentRepository(it)) THEN strip(ContentRepository(it).s)
  ELSE IF Present(it.repository) THEN strip(it.repository.s)
  ELSE UNKNOWN_REPO

\* C15: an item is grouped under content.repository when that is present,
\* otherwise under its top-level repository when that is present (also when
\* content.repository is blank), otherwise under "(unknown repo)".
C15_TopLevelWhenContentBlank ==
  pc = "build_repo_summary" =>
    \A i \in DOMAIN items : TotalOf(repo_summ, ClaimedKey(items[i])) >= 1

\* a is placed before b by the composite order
RanksAbove(a, b) ==
  LET ka == <<a.counts[UNKNOWN], a.counts[BLOCKED], a.counts[DOING], a.total>>
      kb == <<b.counts[UNKNOWN], b.counts[BLOCKED], b.counts[DOING], b.total>>
      D  == {c \in 1..4 : ka[c] # kb[c]}
  IN  IF D = {} THEN StrLess(a.repo, b.repo)
      ELSE LET c == CHOOSE c \in D : \A e \in D : c <= e
           IN  ka[c] > kb[c]

\* C16: the repository summary is ordered by Unknown count descending, then
\* Blocked, then Doing, then total descending, then name ascending: every
\* entry ranks strictly above every later one.
C16_SummaryOrder ==
  pc = "build_repo_summary" =>
    \A i \in DOMAIN repo_summ : \A j \in DOMAIN repo_summ :
      i < j => RanksAbove(repo_summ[i], repo_summ[j])

\* Unknown=1, total=1 above Unknown=0, Blocked=2, total=2
C16_Witness ==
  /\ pc = "build_repo_summary"
  /\ Len(repo_summ) = 2
  /\ repo_summ[1].counts[UNKNOWN] = 1
  /\ repo_summ[1].counts[BLOCKED] = 0
  /\ repo_summ[1].total = 1
  /\ repo_summ[2].counts[UNKNOWN] = 0
  /\ repo_summ[2].counts[BLOCKED] = 2
  /\ repo_summ[2].total = 2

\* the first place of the element x in the sequence q, 0 when there is none
Find(q, x) ==
  IF \E i \in DOMAIN q : q[i] = x
  THEN CHOOSE i \in DOMAIN q : q[i] = x /\ \A j \in 1..(i - 1) : q[j] # x
  ELSE 0

\* what follows the first x in q
After(q, x) == SubSeq(q, Find(q, x) + 1, Len(q))

\* the stretches of q after each element open, each up to the next close
RECURSIVE Fields(_, _, _)
Fields(q, open, close) ==
  IF Find(q, open) = 0 THEN <<>>
  ELSE LET rest == After(q, open)
           j == IF Find(rest, close) = 0 THEN Len(rest) + 1
                ELSE Find(rest, close)
       IN  <<SubSeq(rest, 1, j - 1)>>
             \o Fields(SubSeq(rest, j + 1, Len(rest)), open, close)

\* the stretches of q that an element open begins, each up to the next open
RECURSIVE Segments(_, _)
Segments(q, open) ==
  IF Find(q, open) = 0 THEN <<>>
  ELSE LET rest == After(q, open)
           j == IF Find(rest, open) = 0 THEN Len(rest) + 1
                ELSE Find(rest, open)
       IN  <<SubSeq(rest, 1, j - 1)>>
             \o Segments(SubSeq(rest, j, Len(rest)), open)

\* the literal text around the values of the document
GROUP_START == "<details class=\"group\""
GROUP_NAME == ">\n  <summary class=\"groupSum\">\n    <span class=\"groupName\">"
GROUP_COUNT == "</span>\n    <span class=\"groupCount\">"
GROUP_ROWS == "</span>\n  </summary>\n  <div class=\"tableWrap\">\n"
ITEMS_START == "    <h2 class=\"section\">Items</h2>\n    "
HREF_START == "<a href='"
HREF_END == "' target='_blank' rel='noopener noreferrer'>"
LINK_END == "</a>"
TOTAL_START == "</b><br/>\n        Total (reported): <b>"
TOTAL_END == "</b> / Items: <b>"
ITEMS_END == "</b>\n      </div>\n\n      <div class=\"links\">\n"

\* the groups of the document: the name, the count and the rows each shows
GroupsOf(doc) == Segments(doc, GROUP_START)
NameOf(g) == Fields(g, GROUP_NAME, GROUP_COUNT)[1]
CountOf(g) == Fields(g, GROUP_COUNT, GROUP_ROWS)[1]
TitlesOf(g) == Fields(g, HREF_END, LINK_END)
LinksOf(g) == Fields(g, HREF_START, HREF_END)

\* the entity of a character
EntityOf(c) ==
  CASE c = "&" -> <<"&", "a", "m", "p", ";">>
    [] c = "<" -> <<"&", "l", "t", ";">>
    [] c = ">" -> <<"&", "g", "t", ";">>
    [] c = "\"" -> <<"&", "q", "u", "o", "t", ";">>
    [] c = "'" -> <<"&", "#", "3", "9", ";">>
    [] OTHER -> <<c>>

Entities == {EntityOf(c) : c \in {"&", "<", ">", "\"", "'"}}

\* every character of s escaped once
RECURSIVE Escaped(_)
Escaped(s) ==
  IF s = <<>> THEN <<>> ELSE EntityOf(Head(s)) \o Escaped(Tail(s))

\* the items of its with the normalized status st, in the order of its
OfBucket(its, st) ==
  SelectSeq(its, LAMBDA it : IF st = UNKNOWN THEN Rank(it) = 5
                             ELSE it.status = Str(st))

\* the six buckets in the order of the page
PageOrder == <<INBOX, READY, DOING, BLOCKED, DONE, UNKNOWN>>

\* C17: the groups of the page come in the order Inbox, Ready, Doing,
\* Blocked, Done, Unknown; a status without items has no group; a group
\* shows the number of its items and holds the rows of exactly the items of
\* its status, in the order of the sorted list.
C17_GroupsOfThePage ==
  pc = "done" =>
    LET G == GroupsOf(file.text)
    IN  /\ [k \in DOMAIN G |-> NameOf(G[k])]
             = SelectSeq(PageOrder, LAMBDA st : OfBucket(items, st) # <<>>)
        /\ \A k \in DOMAIN G :
             LET group == OfBucket(items_sorted, NameOf(G[k]))
             IN  /\ CountOf(G[k]) = str_int(counts[NameOf(G[k])])
                 /\ counts[NameOf(G[k])] = Len(group)
                 /\ TitlesOf(G[k])
                      = [j \in DOMAIN group |-> Escaped(TitleText(group[j]))]
                 /\ LinksOf(G[k])
                      = [j \in DOMAIN group |-> Escaped(UrlText(group[j]))]

\* two groups on the page, one of two items that the sort has put in order
C17_Witness ==
  /\ pc = "done"
  /\ Len(items) = 3
  /\ Len(GroupsOf(file.text)) = 2
  /\ \E k \in 1..2 : Len(TitlesOf(GroupsOf(file.text)[k])) = 2
  /\ Rank(items[1]) = Rank(items[3])
  /\ Rank(items[2]) < Rank(items[1])
  /\ StrLess(TitleText(items[3]), TitleText(items[1]))

\* the body of an item as the row shows it
ShownBody(it) == strip(BodyText(it))

\* the content.repository of an item as the row shows it
ShownRepo(it) ==
  IF it.content = "dict" /\ it.crepo.t = "str" THEN strip(it.crepo.s) ELSE <<>>

\* a repository cell: the name, inside a link when the name has a slash and
\* no space
RepoCell(name) ==
  IF HasSlash(name) /\ " " \notin Range(name)
  THEN <<HREF_START>>
         \o Escaped(<<"h", "t", "t", "p", "s", ":", "/", "/", "g", "i", "t",
                      "h", "u", "b", ".", "c", "o", "m", "/">> \o name)
         \o <<HREF_END>> \o Escaped(name) \o <<LINK_END>>
  ELSE Escaped(name)

\* C18: every text of the snapshot is in the document with each of its
\* characters escaped once (title, URL, repository and body in the rows, the
\* repository names of the summary, the violation messages); the document
\* has no raw <, >, " or ' outside the literal text of the templates, and
\* every & in it begins one of the five entities.
C18_TextsEscapedOnce ==
  pc = "done" =>
    LET doc  == file.text
        rows == After(doc, ITEMS_START)
    IN  /\ \A i \in DOMAIN doc : doc[i] \notin {"<", ">", "\"", "'"}
        /\ \A i \in DOMAIN doc :
             doc[i] = "&" =>
               \E e \in Entities :
                 /\ i + Len(e) - 1 <= Len(doc)
                 /\ SubSeq(doc, i, i + Len(e) - 1) = e
        /\ Fields(rows, HREF_END, LINK_END)
             = [k \in DOMAIN items_sorted |->
                  Escaped(TitleText(items_sorted[k]))]
        /\ Fields(rows, HREF_START, HREF_END)
             = [k \in DOMAIN items_sorted |-> Escaped(UrlText(items_sorted[k]))]
        /\ Fields(rows, "<div class='sub'>", "</div>")
             = [k \in DOMAIN items_sorted |->
                  Escaped(ShownRepo(items_sorted[k]))]
        /\ Fields(rows, "<pre class='body'>", "</pre>")
             = LET shown == SelectSeq(items_sorted,
                                      LAMBDA it : ShownBody(it) # <<>>)
               IN  [k \in DOMAIN shown |-> Escaped(ShownBody(shown[k]))]
        /\ Fields(doc, "<li>", "</li>") = [k \in DOMAIN v |-> Escaped(v[k])]
        /\ Fields(doc, "<td class='repoCol'>", "<div class='sub small'>items: ")
             = [k \in DOMAIN repo_summ |-> RepoCell(repo_summ[k].repo)]

\* an item whose texts hold an entity and a raw <, in the document
C18_Witness ==
  /\ pc = "done"
  /\ Len(items) = 1
  /\ items[1].title = Str(<<"&", "l", "t", ";", "<">>)
  /\ items[1].body = items[1].title
  /\ Fields(After(file.text, ITEMS_START), HREF_END, LINK_END)
       = << <<"&", "a", "m", "p", ";", "l", "t", ";", "&", "l", "t", ";">> >>
  /\ Len(v) = 1

\* C19: the report shows the totalCount of the snapshot as the reported total
\* and the number of items as the processed count, whatever totalCount is,
\* 0 included.
C19_ReportedTotalIsTotalCount ==
  pc = "done" /\ snapshot.totalCount.t = "int" =>
    /\ Fields(file.text, TOTAL_START, TOTAL_END) = <<snapshot.totalCount.s>>
    /\ Fields(file.text, TOTAL_END, ITEMS_END) = <<str_int(Len(snapshot.items))>>

\* the snapshot is not an object with a list under items
Malformed(src) == src.t # "dict" \/ src.items_t # "list"

\* C20: a run on a malformed snapshot (not JSON, not an object, items
\* missing, null or not a list) aborts and leaves the output file as it was.
C20_MalformedIsFatal ==
  Malformed(snapshot) => pc # "done" /\ file \in {NO_FILE, OLD_FILE}

\* a value that is a str of characters that can be encoded, null or missing
TextOrMissing(x) ==
  x.t \in {"str", "None", "absent"} /\ SURROGATE \notin Range(x.s)

\* an item that is as the data model says, but for a null or missing status,
\* title, repository, content, url or body and a number of any kind
ListedAnomaliesOnly(it) ==
  /\ TextOrMissing(it.status)
  /\ TextOrMissing(it.title)
  /\ TextOrMissing(it.repository)
  /\ it.content \in {"dict", "None", "absent"}
  /\ TextOrMissing(it.url)
  /\ TextOrMissing(it.body)
  /\ TextOrMissing(it.crepo)
  /\ it.number.t \in {"str", "int", "None", "absent"}
  /\ SURROGATE \notin Range(it.number.s)

\* some field of the item is null or missing, or its number is no number
HasAnomaly(it) ==
  \/ \E f \in {"status", "title", "repository", "url", "body", "crepo"} :
       it[f].t \in {"None", "absent"}
  \/ it.content # "dict"
  \/ it.number.t # "int"

\* the number of an item as its row shows it
ShownNumber(it) ==
  IF it.content = "dict" /\ it.number.t \in {"str", "int"}
  THEN Escaped(it.number.s) ELSE <<"-">>

\* C21: the anomalies of an item never abort the run: a snapshot whose items
\* have a null or missing status, body, title, repository or content, or a
\* number that is no number, is sorted, counted, checked, summarised,
\* rendered and written; the row of an item shows the Unknown status for a
\* status that is none of the five, the empty string for a missing title,
\* "-" for a missing number, and the item is counted under
\* "(unknown repo)" when it has no repository.
C21_AnomaliesAbsorbed ==
  /\ snapshot.t = "dict"
  /\ snapshot.items_t = "list"
  /\ \A i \in DOMAIN snapshot.items : ListedAnomaliesOnly(snapshot.items[i])
  => /\ pc # "failed"
     /\ pc = "done" =>
          LET rows == After(file.text, ITEMS_START)
          IN  /\ file.text = html
              /\ Fields(rows, "'>", "</span></td>")
                   = [k \in DOMAIN items_sorted |->
                        PageOrder[Rank(items_sorted[k]) + 1]]
              /\ Fields(rows, "<td class='colNum'>", "</td>")
                   = [k \in DOMAIN items_sorted |-> ShownNumber(items_sorted[k])]
              /\ Fields(rows, HREF_END, LINK_END)
                   = [k \in DOMAIN items_sorted |->
                        Escaped(TitleText(items_sorted[k]))]
              /\ \A i \in DOMAIN items :
                   Blank(ChosenRepository(items[i])) =>
                     TotalOf(repo_summ, UNKNOWN_REPO) >= 1

\* a report of an item with nothing but nulls, and of one whose number is
\* the text n/a
C21_Witness ==
  /\ pc = "done"
  /\ Len(items) = 3
  /\ \E i \in DOMAIN items :
       /\ items[i].status = None
       /\ items[i].title = None
       /\ items[i].content = "None"
  /\ \E i \in DOMAIN items : items[i].number = Str(<<"n", "/", "a">>)
  /\ \A i \in DOMAIN items : HasAnomaly(items[i]) \/ items[i].number = IntVal(7)
  /\ file.text = html

\* C22: a run that fails leaves the output file exactly as it was: every
\* step that can fail on the data is over before the file is opened.
C22_FailedRunLeavesFile ==
  pc = "failed" => file \in {NO_FILE, OLD_FILE}

\* the number of an item as the claim has it shown: "-" unless it is an int
ClaimedNumber(it) ==
  IF it.content = "dict" /\ it.number.t = "int" THEN it.number.s ELSE <<"-">>

\* C21 as stated: the run on a snapshot with such anomalies never aborts, and
\* a number that is no number is shown as "-".
C21_NonNumericShownAsDash ==
  /\ snapshot.t = "dict"
  /\ snapshot.items_t = "list"
  /\ \A i \in DOMAIN snapshot.items : ListedAnomaliesOnly(snapshot.items[i])
  => /\ pc # "failed"
     /\ pc = "done" =>
          Fields(After(file.text, ITEMS_START), "<td class='colNum'>", "</td>")
            = [k \in DOMAIN items_sorted |-> ClaimedNumber(items_sorted[k])]

\* C23: build_counts and build_repo_summary give, for the same items in any
\* other order and for the sorted list main passes them, what they give for
\* the list as it was: the same mapping, the same rows in the same order.
C23_OrderIndependent ==
  [][ /\ pc' \in {"build_counts_permuted", "build_counts_sorted"}
           => counts' = counts
      /\ pc' \in {"build_repo_summary_permuted", "build_repo_summary_sorted"}
           => repo_summ' = repo_summ ]_vars

\* a list of two repositories with the same counts was summarised in both
\* orders
C23_Witness ==
  /\ pc = "build_repo_summary_permuted"
  /\ Len(items) >= 2
  /\ items_sorted # items
  /\ repo_of(items[1]) # repo_of(items_sorted[1])
  /\ Len(repo_summ) >= 2
  /\ repo_summ[1].counts = repo_summ[2].counts

\* the commands that change nothing on GitHub
READ_ONLY == {GIT_REMOTE_GET_URL, GH_API, GH_ISSUE_LIST, GH_LABEL_LIST}

\* the commands run so far that are cmd
At(cmd) == {i \in DOMAIN cmds : cmds[i].cmd = cmd}

\* the labels of the answer of gh label list hold P2
ListsP2(e) ==
  e.out.t = "list" /\ \E k \in DOMAIN e.out.v : e.out.v[k].name = Str(P2_LABEL)

\* C24: dry-run is the mode of a command line without flags, and in dry-run
\* mode every command process_repo runs, whatever the commands before it
\* answered, is one of git remote get-url, gh api repos/..., gh issue list and
\* gh label list: no PATCH, no label create, no issue create, no item-add.
C24_DryRunOnlyReads ==
  /\ bpc \notin {"none", "parse_args", "usage"} /\ argv = <<>> => dry_run
  /\ bpc \notin {"none", "parse_args", "usage"} /\ dry_run
       => \A i \in DOMAIN cmds : cmds[i].cmd \in READ_ONLY

\* a dry run of the default command line went through every step on a
\* repository with issues disabled and no P2 label
C24_Witness ==
  /\ bpc = "returned"
  /\ argv = <<>>
  /\ dry_run
  /\ result.status = "success"
  /\ Len(cmds) = 4
  /\ cmds[2].out.t = "dict" /\ ~cmds[2].out.has_issues
  /\ ~ListsP2(cmds[4])

\* the place of a command in process_repo
OrderOf(cmd) ==
  CASE cmd = GIT_REMOTE_GET_URL -> 1
    [] cmd = GH_API -> 2
    [] cmd = GH_API_PATCH -> 3
    [] cmd = GH_ISSUE_LIST -> 4
    [] cmd = GH_LABEL_LIST -> 5
    [] cmd = GH_LABEL_CREATE -> 6
    [] cmd = GH_ISSUE_CREATE -> 7
    [] cmd = GH_PROJECT_ITEM_ADD -> 8

\* the command did what the step needed
Succeeded(e) ==
  \/ e.code = 0
  \/ e.cmd = GH_LABEL_CREATE /\ Contains(lower(e.err), ALREADY_EXISTS)

\* the messages of the skips process_repo decides itself
DeliberateSkip(msg) ==
  /\ msg # <<>>
  /\ msg[1] \in { "origin unavailable (", "origin is not github.com (",
                  "manager repo excluded", "archived repository",
                  "issue already exists (" }

\* C25: the commands run in the order origin lookup, metadata, (enable
\* issues), issue list, label list, (label create), issue create, item-add,
\* each at most once and none after one that did not succeed; gh issue create
\* runs only for a non-excluded, non-archived GitHub repository whose issue
\* list was read and holds no issue with the inventory title and whose P2
\* label is there; gh project item-add runs only with the URL that gh issue
\* create returned; the result is "success" only when every step succeeded,
\* "skipped" when the message starts with "skip:" or is one of the deliberate
\* skips, and "failed" otherwise.
C25_FixedOrder ==
  /\ \A i, j \in DOMAIN cmds :
       i < j => OrderOf(cmds[i].cmd) < OrderOf(cmds[j].cmd)
  /\ \A i \in DOMAIN cmds : i < Len(cmds) => Succeeded(cmds[i])
  /\ \A i \in DOMAIN cmds :
       /\ OrderOf(cmds[i].cmd) > 1 => At(GIT_REMOTE_GET_URL) # {}
       /\ OrderOf(cmds[i].cmd) > 2 => At(GH_API) # {}
       /\ OrderOf(cmds[i].cmd) > 4 => At(GH_ISSUE_LIST) # {}
       /\ OrderOf(cmds[i].cmd) > 5 => At(GH_LABEL_LIST) # {}
       /\ OrderOf(cmds[i].cmd) > 7 => At(GH_ISSUE_CREATE) # {}
  /\ At(GH_ISSUE_CREATE) # {} =>
       /\ ~dry_run
       /\ \/ startswith(cmds[1].out, HTTPS_PREFIX)
          \/ startswith(cmds[1].out, SSH_PREFIX)
       /\ parsed # NOT_PARSED
       /\ lower(repo_full(parsed)) \notin EXCLUDED_REPOS
       /\ \A i \in At(GH_API) :
            cmds[i].code = 0 /\ cmds[i].out.t = "dict" /\ ~cmds[i].out.archived
       /\ \A i \in At(GH_ISSUE_LIST) :
            /\ cmds[i].code = 0
            /\ cmds[i].out.t \in {"list", "dict0"}
            /\ cmds[i].out.t = "list" =>
                 \A k \in DOMAIN cmds[i].out.v :
                   cmds[i].out.v[k].title # Str(ISSUE_TITLE)
       /\ \A i \in At(GH_LABEL_LIST) :
            /\ cmds[i].code = 0
            /\ \/ ListsP2(cmds[i])
               \/ \E k \in At(GH_LABEL_CREATE) : Succeeded(cmds[k])
  /\ \A i \in At(GH_PROJECT_ITEM_ADD) :
       /\ cmds[i].repo = issue_url
       /\ startswith(issue_url, HTTP)
       /\ \E k \in At(GH_ISSUE_CREATE) :
            cmds[k].code = 0 /\ Contains(cmds[k].out, issue_url)
  /\ bpc = "returned" =>
       /\ result.status \in {"success", "skipped", "failed"}
       /\ result.status = "success" =>
            /\ \A i \in DOMAIN cmds : Succeeded(cmds[i])
            /\ At(GH_ISSUE_LIST) # {} /\ At(GH_LABEL_LIST) # {}
            /\ ~dry_run => At(GH_PROJECT_ITEM_ADD) # {}
       /\ result.status # "success" =>
            (result.status = "skipped"
               <=> \/ starts_with_word(result.message, "skip:")
                   \/ DeliberateSkip(result.message))

\* an execution ran all eight commands and returned success
C25_Witness ==
  /\ bpc = "returned"
  /\ ~dry_run
  /\ result.status = "success"
  /\ Len(cmds) = 8
  /\ cmds[7].cmd = GH_ISSUE_CREATE
  /\ cmds[8].cmd = GH_PROJECT_ITEM_ADD

====
